---------------------------- MODULE Spec2Model ----------------------------
(***************************************************************************)
(* Model of the serial-perf crate: the counting packet protocol (counter   *)
(* algebra, CRC framing), the non-blocking TX/RX state machines, the       *)
(* Counting orchestrator that drives them against a non-blocking serial,   *)
(* the polling byte rate limiter and the serial it guards.                 *)
(***************************************************************************)
EXTENDS Integers, Sequences, FiniteSets, TLC

(***************************************************************************)
(* Bounds of the model.                                                    *)
(***************************************************************************)
\* number of orchestrator calls explored by Spec
MaxTicks == 3
\* number of packets the TX produces in SpecLink
MaxPackets == 6
\* number of whole packets the link may remove in SpecLink
MaxDropped == 3
\* number of pop and push calls applied to a counter in SpecCounter
MaxWalk == 2
\* last instant of the clock in SpecLimiter and SpecLimitedSerial
MaxTime == 7
\* number of send() calls in SpecLimiter, of write calls in SpecLimitedSerial
MaxSends == 5
\* restart() calls that return Ok on one limiter
MaxRestarts == 2
\* bytes a noisy line delivers to an RX
MaxFill == 12
\* send_nb calls between two resets, and reset calls
MaxSent == 2
MaxResets == 1
\* bytes a Loopback reads, and serial errors it meets
MaxLoopBytes == 3
MaxLoopErrors == 2
\* bytes a measurer counts in one window
MaxMeasured == 3
\* send_nb calls whose write is answered Ok or an error
MaxSendCalls == 7

(***************************************************************************)


(* Program constants.                                                      *)
(***************************************************************************)
\* counting/mod.rs: capacity of the TX and RX packet buffers
MAX_PACKET_SIZE == 10
\* usize::MAX of the narrowest target the counters are compiled for
\* (target_pointer_width = "16")
USIZE_MAX == 65535
\* byte_rate/rate.rs: usize::MAX / 2 of the narrowest target the literal
\* 1_000_000_000 compiles for (target_pointer_width = "32"); usize::MAX is
\* 2 * USIZE32_HALF + 1, which the 32 bit signed integers of TLC cannot hold
USIZE32_HALF == 2147483647
\* core::time: nanoseconds in a second
NANOS_PER_SEC == 1000000000
\* byte_rate/rate.rs: the factors of the precisions
PER_SEC_NS == 1000000000
PER_SEC_US == 1000000
PER_SEC_MS == 1000

VARIABLES
    number_size,     \* size in bytes of the Number type parameter (u8: 1, u16: 2)
    overflow_checks, \* build profile: TRUE when arithmetic overflow panics (debug)
    tx_state,        \* Counting::tx_state : TxState<Number>
    rx_state,        \* Counting::rx_state : RxState<Number, LossStats>
    tx_stats,        \* Counting::tx_stats : CountingStatistics
    rx_stats,        \* Counting::rx_stats : CountingStatistics
    serial,          \* the serial endpoint: bytes in flight and what it was asked
    call,            \* the last orchestrator call and its outcome
    link,            \* bookkeeping of the traffic put on the link
    counter,         \* a Counter value and what was computed from it
    limiter,         \* a byte rate limiter, its clock and the serial behind it
    loopback,        \* a Loopback, its serial and the last call made on it
    byte_rate,       \* a ByteRate value and what was computed from it
    measurer         \* an IntervalByteRateMeasurer and its clock

\* the variables of the Counting orchestrator and its link
counting_vars ==
    <<number_size, overflow_checks, tx_state, rx_state, tx_stats, rx_stats,
      serial, call, link>>

\* the variables the Counting specifications leave alone
\* the variables of the loopback and byte rate studies
more_vars == <<loopback, byte_rate, measurer>>

other_vars == <<counter, limiter, more_vars>>

vars == <<counting_vars, other_vars>>

(***************************************************************************)
(* Option<T>, bytes and bit operations.                                    *)
(***************************************************************************)
None == << >>

Some(x) == <<x>>

IsSome(o) == o # << >>

Unwrap(o) == o[1]

RECURSIVE Pow(_, _)
Pow(b, e) == IF e = 0 THEN 1 ELSE b * Pow(b, e - 1)

RECURSIVE Xor(_, _, _)
\* bitwise exclusive or of two values of the given number of bits
Xor(a, b, bits) ==
    IF bits = 0 THEN 0
    ELSE ((a + b) % 2) + 2 * Xor(a \div 2, b \div 2, bits - 1)

RECURSIVE Crc8Shift(_, _)
\* one byte step of an MSB-first CRC with polynomial 0x2F
Crc8Shift(crc, n) ==
    IF n = 0 THEN crc
    ELSE Crc8Shift(IF crc >= 128
                   THEN Xor((crc * 2) % 256, 47, 8)
                   ELSE (crc * 2) % 256, n - 1)

RECURSIVE Crc8Update(_, _)
Crc8Update(crc, bytes) ==
    IF bytes = << >> THEN crc
    ELSE Crc8Update(Crc8Shift(Xor(crc, Head(bytes), 8), 8), Tail(bytes))

\* Crc::<u8>::new(&crc::CRC_8_AUTOSAR).checksum(bytes):
\* poly 0x2F, init 0xFF, no reflection, xorout 0xFF
Crc8Autosar(bytes) == Xor(Crc8Update(255, bytes), 255, 8)

(***************************************************************************)
(* counting/counter.rs: LeBytes for [u8; N].                               *)
(***************************************************************************)
\* heapless::Vec::insert(0, x)
Insert0(v, x) == <<x>> \o v

\* a faulty variant of from_slice_checked: the length is not checked
from_slice_checked_unsized(slice, checksum, sz) ==
    IF IsSome(checksum) /\ Crc8Autosar(slice) # Unwrap(checksum) THEN None
    ELSE Some(slice)

\* LeBytes::from_slice_checked, N = sz: the bytes, or None
from_slice_checked(slice, checksum, sz) ==
    IF sz # Len(slice) THEN None
    ELSE IF IsSome(checksum) /\ Crc8Autosar(slice) # Unwrap(checksum) THEN None
    ELSE Some(slice)

RECURSIVE into_packet_loop_push(_, _)
\* a faulty variant of into_packet_loop: every byte is pushed at the end
into_packet_loop_push(bytes, out) ==
    IF bytes = << >> THEN out
    ELSE into_packet_loop_push(Tail(bytes), Append(out, Head(bytes)))

RECURSIVE into_packet_loop(_, _)
\* the for loop of into_packet: every byte is inserted at the head of out
into_packet_loop(bytes, out) ==
    IF bytes = << >> THEN out
    ELSE into_packet_loop(Tail(bytes), Insert0(out, Head(bytes)))

\* the checksum byte of into_packet: the CRC, or crc_data.first().unwrap_or(0)
packet_checksum(crc_data, checksum_enabled) ==
    IF checksum_enabled THEN Crc8Autosar(crc_data)
    ELSE IF crc_data = << >> THEN 0 ELSE crc_data[1]

\* LeBytes::into_packet: the packet as the Vec the TX pops from its end
into_packet(bytes, checksum_enabled) ==
    Insert0(Insert0(into_packet_loop(bytes, << >>), 0),
            packet_checksum(bytes, checksum_enabled))

\* LeBytes::ones
ones(sz) == [i \in 1..sz |-> 1]

\* LeBytes::filled
filled(sz) == [i \in 1..sz |-> 255]

(***************************************************************************)
(* counting/counter.rs: Counter for u8 (sz = 1) and u16 (sz = 2).          *)
(***************************************************************************)
\* <$x>::to_le_bytes
to_le_bytes(v, sz) == [i \in 1..sz |-> (v \div Pow(256, i - 1)) % 256]

RECURSIVE from_le_bytes(_)
\* <$x>::from_le_bytes
from_le_bytes(bytes) ==
    IF bytes = << >> THEN 0 ELSE Head(bytes) + 256 * from_le_bytes(Tail(bytes))

RECURSIVE normalize_sum_base_256(_, _)
\* a faulty variant of normalize_sum: the positions weigh 256, not 255
normalize_sum_base_256(bytes, pos) ==
    IF bytes = << >> THEN 0
    ELSE (Head(bytes) - 1) * Pow(256, pos)
         + normalize_sum_base_256(Tail(bytes), pos + 1)

RECURSIVE normalize_sum(_, _)
\* the sum of normalize: out_value += (byte - 1) * 255.pow(pos)
normalize_sum(bytes, pos) ==
    IF bytes = << >> THEN 0
    ELSE (Head(bytes) - 1) * Pow(255, pos) + normalize_sum(Tail(bytes), pos + 1)

\* the loop of normalize over the bytes: None when a byte is zero
normalize_bytes(bytes) ==
    IF \E i \in DOMAIN bytes : bytes[i] < 1 THEN None
    ELSE Some(normalize_sum(bytes, 0))

\* Counter::normalize
normalize(v, sz) == normalize_bytes(to_le_bytes(v, sz))

\* Counter::min_counter
min_counter(sz) == from_le_bytes(ones(sz))

\* Counter::max_counter
max_counter(sz) == from_le_bytes(filled(sz))

\* Counter::max_normalized
max_normalized(sz) == Unwrap(normalize(max_counter(sz), sz))

RECURSIVE to_counter_value_loop_high_first(_, _, _)
\* a faulty variant of to_counter_value_loop: the first remainder goes to
\* the highest byte
to_counter_value_loop_high_first(cur_value, i, sz) ==
    IF i = sz THEN 0
    ELSE ((cur_value % 255) + 1) * Pow(2, 8 * (sz - 1 - i))
         + to_counter_value_loop_high_first(cur_value \div 255, i + 1, sz)

RECURSIVE to_counter_value_loop(_, _, _)
\* the loop of to_counter_value: out_value += (cur_value % 255 + 1) << (8 * i)
to_counter_value_loop(cur_value, i, sz) ==
    IF i = sz THEN 0
    ELSE ((cur_value % 255) + 1) * Pow(2, 8 * i)
         + to_counter_value_loop(cur_value \div 255, i + 1, sz)

\* Counter::to_counter_value
to_counter_value(v, sz) ==
    IF max_normalized(sz) < v THEN None
    ELSE Some(to_counter_value_loop(v, 0, sz))

\* a faulty variant of pop_normalized: the wrap comes one step early
pop_normalized_early_wrap(normalized, sz) ==
    IF normalized + 1 >= max_normalized(sz) THEN 0 ELSE normalized + 1

\* pop: the normalized value after the increment, max wrapping to 0
pop_normalized(normalized, sz) ==
    IF normalized = max_normalized(sz) THEN 0 ELSE normalized + 1

\* pop of a valid counter: the counter after the increment (self) and its
\* value before (out)
pop_valid(self0, sz) ==
    [self |-> Unwrap(to_counter_value(
                  pop_normalized(Unwrap(normalize(self0, sz)), sz), sz)),
     out  |-> self0]

\* Counter::pop: an invalid counter is first replaced by min_counter
pop(v, sz) ==
    pop_valid(IF IsSome(normalize(v, sz)) THEN v ELSE min_counter(sz), sz)

\* a faulty variant of push_normalized: 0 stays 0
push_normalized_saturating(normalized, sz) ==
    IF normalized = 0 THEN 0 ELSE normalized - 1

\* push: the normalized value after the decrement, 0 wrapping to max
push_normalized(normalized, sz) ==
    IF normalized = 0 THEN max_normalized(sz) ELSE normalized - 1

\* push of a valid counter
push_valid(self0, sz) ==
    Unwrap(to_counter_value(
        push_normalized(Unwrap(normalize(self0, sz)), sz), sz))

\* Counter::push: an invalid counter is first replaced by min_counter
push(v, sz) ==
    push_valid(IF IsSome(normalize(v, sz)) THEN v ELSE min_counter(sz), sz)

\* Counter::distance fails its expect(): an operand is not a Counter
distance_panics(a, b, sz) ==
    ~IsSome(normalize(a, sz)) \/ ~IsSome(normalize(b, sz))

\* a faulty variant of distance_normalized: the step from max to min is
\* not counted
distance_normalized_to_max(normalized_left, normalized_right, sz) ==
    IF normalized_left <= normalized_right
    THEN normalized_right - normalized_left
    ELSE (max_normalized(sz) - normalized_left) + normalized_right

\* a faulty variant of distance_normalized: the wrap-around counts one more
distance_normalized_plus_one(normalized_left, normalized_right, sz) ==
    IF normalized_left <= normalized_right
    THEN normalized_right - normalized_left
    ELSE (max_normalized(sz) - normalized_left) + (normalized_right + 1) + 1

\* distance on the normalized operands
distance_normalized(normalized_left, normalized_right, sz) ==
    IF normalized_left <= normalized_right
    THEN normalized_right - normalized_left
    ELSE (max_normalized(sz) - normalized_left) + (normalized_right + 1)

\* a faulty variant of distance: the operands are taken the other way round
distance_swapped(a, b, sz) ==
    distance_normalized(Unwrap(normalize(b, sz)), Unwrap(normalize(a, sz)), sz)

\* Counter::distance of two counters
distance(a, b, sz) ==
    distance_normalized(Unwrap(normalize(a, sz)), Unwrap(normalize(b, sz)), sz)

(***************************************************************************)
(* statistics/counting.rs: CountingStatistics.                             *)
(***************************************************************************)
\* usize::saturating_add
saturating_add(a, b) == IF a + b > USIZE_MAX THEN USIZE_MAX ELSE a + b

\* CountingStatistics::default
new_statistics == [successful |-> 0, failed |-> 0]

\* CountingStatistics::add_successful
add_successful(stats, count) ==
    [stats EXCEPT !.successful = saturating_add(@, count)]

\* CountingStatistics::add_failed
add_failed(stats, count) ==
    [stats EXCEPT !.failed = saturating_add(@, count)]

\* CountingStatistics::reset
statistics_reset(stats) == [stats EXCEPT !.failed = 0, !.successful = 0]

(***************************************************************************)
(* counting/tx_state.rs: TxState.                                          *)
(***************************************************************************)
\* TxState::default (checksum) and TxState::new_without_checksum
new_tx_state(checksum_enabled) ==
    [number_to_send |-> 0, data_to_send |-> << >>,
     checksum_enabled |-> checksum_enabled]

\* prepare_next_packet once the counter was popped
store_packet(tx, popped, sz) ==
    [tx EXCEPT !.number_to_send = popped.self,
               !.data_to_send = into_packet(to_le_bytes(popped.out, sz),
                                            tx.checksum_enabled)]

\* TxState::prepare_next_packet
prepare_next_packet(tx, sz) == store_packet(tx, pop(tx.number_to_send, sz), sz)

\* TxState::peek: the state it leaves (the packet is prepared when none is pending)
peek_state(tx, sz) ==
    IF tx.data_to_send = << >> THEN prepare_next_packet(tx, sz) ELSE tx

\* data_to_send.last().copied().unwrap_or(0)
last_or_zero(data) == IF data = << >> THEN 0 ELSE data[Len(data)]

\* TxState::peek: the byte it returns
peek(tx, sz) == last_or_zero(peek_state(tx, sz).data_to_send)

\* a faulty variant of pop_data: the byte at the head is removed
pop_data_head(tx) == [tx EXCEPT !.data_to_send = Tail(@)]

\* data_to_send.pop()
pop_data(tx) == [tx EXCEPT !.data_to_send = SubSeq(@, 1, Len(@) - 1)]

\* TxState::take: the state after the byte was popped
take(tx, sz) == pop_data(peek_state(tx, sz))

\* TxState::reset, which Counting::reset calls: the initial counter is
\* restored, the queue is cleared and checksum_enabled is kept
tx_state_reset(tx) ==
    [tx EXCEPT !.number_to_send = 0, !.data_to_send = << >>]

(***************************************************************************)
(* counting/rx_state.rs: RxState.                                          *)
(***************************************************************************)
\* RxState::new and RxState::new_without_checksum
new_rx_state(checksum_enabled) ==
    [number |-> None, current_packet |-> << >>, internal_state |-> "Receiving",
     loss_stats |-> new_statistics, checksum_enabled |-> checksum_enabled]

\* a faulty variant of rx_state_reset: the last number received is kept
rx_state_reset_keeps_number(rx) ==
    [rx EXCEPT !.current_packet = << >>,
               !.internal_state = "Receiving",
               !.loss_stats = statistics_reset(@)]

\* RxState::reset
rx_state_reset(rx) ==
    [rx EXCEPT !.number = None,
               !.current_packet = << >>,
               !.internal_state = "Receiving",
               !.loss_stats = statistics_reset(@)]

\* a faulty variant of loss_of: the distance itself is counted as the loss
loss_of_distance(d) == d % (USIZE_MAX + 1)

\* distance - 1 in usize: wraps when overflow checks are off
loss_of(d) == (d - 1) % (USIZE_MAX + 1)

\* RxState::on_new_number aborts: distance() panics, or distance - 1
\* underflows in a build with overflow checks
on_new_number_panics(rx, new_number, sz, checks) ==
    /\ IsSome(rx.number)
    /\ \/ distance_panics(Unwrap(rx.number), new_number, sz)
       \/ checks /\ distance(Unwrap(rx.number), new_number, sz) = 0

\* RxState::on_new_number
on_new_number(rx, new_number, sz) ==
    [rx EXCEPT
        !.number = Some(new_number),
        !.loss_stats =
            add_successful(
                IF IsSome(rx.number)
                THEN add_failed(@, loss_of(distance(Unwrap(rx.number),
                                                    new_number, sz)))
                ELSE @,
                1)]

\* the Option<u8> parse_current_packet hands to from_slice_checked
checksum_arg(rx, crc) == IF rx.checksum_enabled THEN Some(crc) ELSE None

\* parse_current_packet once from_slice_checked answered new_number_raw
handle_parsed(rx, new_number_raw, sz) ==
    IF IsSome(new_number_raw)
    THEN on_new_number(rx, from_le_bytes(Unwrap(new_number_raw)), sz)
    ELSE rx

\* a faulty variant of clear_packet: a packet that was not decoded stays
clear_packet_if_decoded(rx) ==
    IF rx.loss_stats.successful > 0 THEN [rx EXCEPT !.current_packet = << >>]
    ELSE rx

\* self.current_packet.clear()
clear_packet(rx) == [rx EXCEPT !.current_packet = << >>]

\* RxState::parse_current_packet
parse_current_packet(rx, crc, sz) ==
    clear_packet(
        handle_parsed(rx,
                      from_slice_checked(rx.current_packet,
                                         checksum_arg(rx, crc), sz),
                      sz))

\* a faulty variant of clear_if_full: the buffer is never cleared
clear_if_full_never(rx) == rx

\* on_byte_received_normal: a full buffer is cleared before the push
clear_if_full(rx) ==
    IF Len(rx.current_packet) = MAX_PACKET_SIZE
    THEN [rx EXCEPT !.current_packet = << >>, !.internal_state = "Receiving"]
    ELSE rx

\* a faulty variant of on_byte_received_normal: the null terminator is kept
\* in the buffer
on_byte_received_normal_keeps_zero(rx, byte) ==
    IF byte = 0
    THEN [rx EXCEPT !.internal_state = "WaitingForCRC",
                    !.current_packet = Append(@, byte)]
    ELSE [clear_if_full(rx) EXCEPT !.current_packet = Append(@, byte)]

\* RxState::on_byte_received_normal
on_byte_received_normal(rx, byte) ==
    IF byte = 0 THEN [rx EXCEPT !.internal_state = "WaitingForCRC"]
    ELSE [clear_if_full(rx) EXCEPT !.current_packet = Append(@, byte)]

\* a faulty variant of on_byte_received_crc: the RX goes on waiting for a
\* CRC when the packet was not decoded
on_byte_received_crc_waits(rx, byte, sz) ==
    IF IsSome(from_slice_checked(rx.current_packet, checksum_arg(rx, byte), sz))
    THEN [parse_current_packet(rx, byte, sz)
             EXCEPT !.internal_state = "Receiving"]
    ELSE parse_current_packet(rx, byte, sz)

\* RxState::on_byte_received_crc
on_byte_received_crc(rx, byte, sz) ==
    [parse_current_packet(rx, byte, sz) EXCEPT !.internal_state = "Receiving"]

\* RxState::on_byte_received
on_byte_received(rx, byte, sz) ==
    IF rx.internal_state = "Receiving"
    THEN on_byte_received_normal(rx, byte)
    ELSE on_byte_received_crc(rx, byte, sz)

\* parse_current_packet aborts in on_new_number
parsed_panics(rx, new_number_raw, sz, checks) ==
    /\ IsSome(new_number_raw)
    /\ on_new_number_panics(rx, from_le_bytes(Unwrap(new_number_raw)), sz, checks)

\* RxState::on_byte_received aborts instead of returning
on_byte_received_panics(rx, byte, sz, checks) ==
    /\ rx.internal_state = "WaitingForCRC"
    /\ parsed_panics(rx,
                     from_slice_checked(rx.current_packet,
                                        checksum_arg(rx, byte), sz),
                     sz, checks)

(***************************************************************************)
(* counting/mod.rs and counting/nb.rs: the Counting orchestrator.  A       *)
(* Counting value c is the record of its fields, of the bytes its serial   *)
(* accepted (written) and of the calls made on it and, by it, on its       *)
(* serial (log): <<"recv_nb">>, <<"read", answer>>, <<"send_nb">>,         *)
(* <<"write", byte, answer>>.                                              *)
(***************************************************************************)
\* non-WouldBlock errors of the serial (Serial::Error)
SerialErrors == {"Overrun", "Noise"}

\* what serial.write(byte) may answer
WriteOutcomes == {"Ok", "WouldBlock"} \cup SerialErrors

\* bytes the peer may deliver to the serial of Spec
ReadBytes == {0, 1, 146}

\* what serial.read() may answer: Ok(byte), WouldBlock or an error
ReadOutcomes ==
    {<<"Ok", b>> : b \in ReadBytes} \cup {<<"WouldBlock">>}
        \cup {<<e>> : e \in SerialErrors}

\* Counting::new (checksum) and Counting::new_without_checksum
new_counting(checksum_enabled) ==
    [tx_state |-> new_tx_state(checksum_enabled),
     rx_state |-> new_rx_state(checksum_enabled),
     tx_stats |-> new_statistics,
     rx_stats |-> new_statistics,
     written  |-> << >>,
     log      |-> << >>]

\* Counting::on_byte_received
counting_on_byte_received(c, byte, sz) ==
    [c EXCEPT !.rx_state = on_byte_received(@, byte, sz),
              !.rx_stats = add_successful(@, 1)]

\* Counting::on_byte_sent
on_byte_sent(c, sz) ==
    [c EXCEPT !.tx_state = take(@, sz),
              !.tx_stats = add_successful(@, 1)]

\* Counting::reset
counting_reset(c) ==
    [c EXCEPT !.tx_state = tx_state_reset(@),
              !.rx_state = rx_state_reset(@),
              !.tx_stats = statistics_reset(@),
              !.rx_stats = statistics_reset(@),
              !.log = @ \o << <<"reset">> >>]

\* a faulty variant of recv_nb_read: WouldBlock falls into the error arm
recv_nb_read_blocked_fails(c, r, sz, checks) ==
    IF r[1] = "Ok"
    THEN IF on_byte_received_panics(c.rx_state, r[2], sz, checks)
         THEN [self |-> c, res |-> "Panic"]
         ELSE [self |-> counting_on_byte_received(c, r[2], sz), res |-> "Ok"]
    ELSE [self |-> [c EXCEPT !.rx_stats = add_failed(@, 1)], res |-> r[1]]

\* recv_nb once self.serial.read() answered r
recv_nb_read(c, r, sz, checks) ==
    IF r[1] = "Ok"
    THEN IF on_byte_received_panics(c.rx_state, r[2], sz, checks)
         THEN [self |-> c, res |-> "Panic"]
         ELSE [self |-> counting_on_byte_received(c, r[2], sz), res |-> "Ok"]
    ELSE IF r[1] = "WouldBlock"
    THEN [self |-> c, res |-> "WouldBlock"]
    ELSE [self |-> [c EXCEPT !.rx_stats = add_failed(@, 1)], res |-> r[1]]

\* ValidCountingNbRead::recv_nb for Counting, the serial answering r
recv_nb(c, r, sz, checks) ==
    recv_nb_read([c EXCEPT !.log = @ \o << <<"recv_nb">>, <<"read", r>> >>],
                 r, sz, checks)

\* a faulty variant of send_nb_write: WouldBlock falls into the error arm
send_nb_write_blocked_fails(c, byte_to_send, w, sz) ==
    IF w = "Ok"
    THEN [self |-> on_byte_sent([c EXCEPT !.written = Append(@, byte_to_send)],
                                sz),
          res  |-> "Ok"]
    ELSE [self |-> [c EXCEPT !.tx_stats = add_failed(@, 1)], res |-> w]

\* a faulty variant of send_nb_write: the byte is taken before the write,
\* so that a failed write loses it
send_nb_write_error_consumes(c, byte_to_send, w, sz) ==
    IF w = "Ok"
    THEN [self |-> on_byte_sent([c EXCEPT !.written = Append(@, byte_to_send)],
                                sz),
          res  |-> "Ok"]
    ELSE IF w = "WouldBlock"
    THEN [self |-> c, res |-> "WouldBlock"]
    ELSE [self |-> [c EXCEPT !.tx_state = take(@, sz),
                             !.tx_stats = add_failed(@, 1)],
          res  |-> w]

\* send_nb once self.serial.write(byte_to_send) answered w
send_nb_write(c, byte_to_send, w, sz) ==
    IF w = "Ok"
    THEN [self |-> on_byte_sent([c EXCEPT !.written = Append(@, byte_to_send)],
                                sz),
          res  |-> "Ok"]
    ELSE IF w = "WouldBlock"
    THEN [self |-> c, res |-> "WouldBlock"]
    ELSE [self |-> [c EXCEPT !.tx_stats = add_failed(@, 1)], res |-> w]

\* send_nb once self.tx_state.peek() returned byte_to_send
send_nb_peeked(c, byte_to_send, w, sz) ==
    send_nb_write([c EXCEPT !.log = @ \o << <<"send_nb">>,
                                            <<"write", byte_to_send, w>> >>],
                  byte_to_send, w, sz)

\* ValidCountingNbWrite::send_nb for Counting, the serial answering w
send_nb(c, w, sz) ==
    send_nb_peeked([c EXCEPT !.tx_state = peek_state(@, sz)],
                   peek(c.tx_state, sz), w, sz)

\* a faulty variant of loop_result: a WouldBlock of either side wins
loop_result_blocked_wins(recv_res, send_res) ==
    IF recv_res = "Ok" /\ send_res = "Ok" THEN "Ok"
    ELSE IF recv_res = "WouldBlock" \/ send_res = "WouldBlock" THEN "WouldBlock"
    ELSE IF recv_res \in SerialErrors THEN recv_res
    ELSE send_res

\* the match of ValidCountingNb::loop_nb on (recv_res, send_res)
loop_result(recv_res, send_res) ==
    IF recv_res = "Ok" /\ send_res = "Ok" THEN "Ok"
    ELSE IF recv_res = "WouldBlock" /\ send_res = "WouldBlock" THEN "WouldBlock"
    ELSE IF recv_res = "WouldBlock" \/ send_res = "WouldBlock" THEN "Ok"
    ELSE IF recv_res \in SerialErrors THEN recv_res
    ELSE send_res

\* loop_nb once both calls returned
loop_nb_match(recv, send) ==
    [self |-> send.self, recv_res |-> recv.res, send_res |-> send.res,
     res |-> loop_result(recv.res, send.res)]

\* a faulty variant of loop_nb_send: a failed receive returns at once (recv_nb()?)
loop_nb_send_unless_failed(recv, w, sz) ==
    IF recv.res = "Panic" \/ recv.res \in SerialErrors
    THEN [self |-> recv.self, recv_res |-> recv.res, send_res |-> "None",
          res |-> recv.res]
    ELSE loop_nb_match(recv, send_nb(recv.self, w, sz))

\* loop_nb once recv_nb returned (or aborted): send_nb is called next
loop_nb_send(recv, w, sz) ==
    IF recv.res = "Panic"
    THEN [self |-> recv.self, recv_res |-> "Panic", send_res |-> "None",
          res |-> "Panic"]
    ELSE loop_nb_match(recv, send_nb(recv.self, w, sz))

\* ValidCountingNb::loop_nb: (self.recv_nb(), self.send_nb()), then the match
loop_nb(c, r, w, sz, checks) ==
    loop_nb_send(recv_nb(c, r, sz, checks), w, sz)

(***************************************************************************)
(* Spec: a Counting orchestrator driven by an external caller through      *)
(* send_nb, recv_nb and loop_nb against a serial that answers every read   *)
(* and write with Ok, WouldBlock or an error.                              *)
(***************************************************************************)
\* widths of the Number type parameter that are explored (u8, u16)
NumberSizes == {1, 2}

\* the Counting value made of the state variables, its log empty
Self ==
    [tx_state |-> tx_state, rx_state |-> rx_state, tx_stats |-> tx_stats,
     rx_stats |-> rx_stats, written |-> serial.written, log |-> << >>]

\* the state variables take the fields of the Counting value c
Store(c) ==
    /\ tx_state' = c.tx_state
    /\ rx_state' = c.rx_state
    /\ tx_stats' = c.tx_stats
    /\ rx_stats' = c.rx_stats
    /\ serial' = [serial EXCEPT !.written = c.written]

NoCall ==
    [op |-> "none", recv_res |-> "None", send_res |-> "None", result |-> "None",
     log |-> << >>, count |-> 0]

\* no Counter value is under study
NoCounter ==
    [start |-> 0, self |-> 0, ops |-> << >>, steps |-> 0, out |-> None,
     obs |-> [op |-> "none", arg |-> << >>, out |-> << >>]]

\* no limiter is under study
NoLimiter == [state |-> "None"]

\* no Loopback is under study
NoLoopback == [state |-> "None"]

\* no ByteRate is under study
NoByteRate == [op |-> "none"]

\* no measurer is under study
NoMeasurer == [returned |-> FALSE]

\* neither a Loopback, nor a ByteRate, nor a measurer is under study
MoreIdle ==
    /\ loopback = NoLoopback
    /\ byte_rate = NoByteRate
    /\ measurer = NoMeasurer

NoLink ==
    [first |-> 0, packets |-> 0, dropped |-> 0, dropping |-> FALSE,
     last_kept |-> FALSE, fed |-> << >>, wire |-> << >>]

\* the process has not aborted and the caller has calls left
Running == call.result # "Panic" /\ call.count < MaxTicks

Init ==
    /\ MoreIdle
    /\ number_size \in NumberSizes
    /\ overflow_checks \in BOOLEAN
    /\ \E checksum_enabled \in BOOLEAN :
          \E c \in {new_counting(checksum_enabled)} :
              /\ tx_state = c.tx_state
              /\ rx_state = c.rx_state
              /\ tx_stats = c.tx_stats
              /\ rx_stats = c.rx_stats
              /\ serial = [to_read |-> << >>, written |-> c.written]
    /\ call = NoCall
    /\ link = NoLink
    /\ counter = NoCounter
    /\ limiter = NoLimiter

\* the caller calls recv_nb
RecvNb ==
    /\ Running
    /\ \E r \in ReadOutcomes :
          \E done \in {recv_nb(Self, r, number_size, overflow_checks)} :
              /\ Store(done.self)
              /\ call' = [op |-> "recv_nb", recv_res |-> done.res,
                          send_res |-> "None", result |-> done.res,
                          log |-> done.self.log, count |-> call.count + 1]
    /\ UNCHANGED <<number_size, overflow_checks, link, other_vars>>

\* the caller calls send_nb
SendNb ==
    /\ Running
    /\ \E w \in WriteOutcomes :
          \E done \in {send_nb(Self, w, number_size)} :
              /\ Store(done.self)
              /\ call' = [op |-> "send_nb", recv_res |-> "None",
                          send_res |-> done.res, result |-> done.res,
                          log |-> done.self.log, count |-> call.count + 1]
    /\ UNCHANGED <<number_size, overflow_checks, link, other_vars>>

\* the caller calls loop_nb
LoopNb ==
    /\ Running
    /\ \E r \in ReadOutcomes, w \in WriteOutcomes :
          \E done \in {loop_nb(Self, r, w, number_size, overflow_checks)} :
              /\ Store(done.self)
              /\ call' = [op |-> "loop_nb", recv_res |-> done.recv_res,
                          send_res |-> done.send_res, result |-> done.res,
                          log |-> done.self.log, count |-> call.count + 1]
    /\ UNCHANGED <<number_size, overflow_checks, link, other_vars>>

Next == RecvNb \/ SendNb \/ LoopNb

Spec == Init /\ [][Next]_vars

(***************************************************************************)
(* SpecLink: a TX state machine sends its packets over a link to a fresh   *)
(* RX state machine of the same width and checksum mode.  The link         *)
(* delivers the bytes in order and may remove whole packets, never the     *)
(* first one.  link.packets counts the packets the TX has completed,       *)
(* link.dropped those of them the link removed, and link.wire holds the    *)
(* bytes of the latest packet in the order the TX has handed them over.    *)
(***************************************************************************)
\* counters the TX may stand at when the link is set up: 0 (a TX just
\* constructed), two before max, and for u16 two before the first carry
LinkFirstCounters(sz) ==
    {0, Unwrap(to_counter_value(max_normalized(sz) - 2, sz))}
        \cup (IF sz = 2 THEN {Unwrap(to_counter_value(253, sz))} ELSE {})

\* nothing is in flight, half sent or being removed
LinkDrained ==
    /\ serial.to_read = << >>
    /\ tx_state.data_to_send = << >>
    /\ ~link.dropping

InitLink ==
    /\ MoreIdle
    /\ number_size \in NumberSizes
    /\ overflow_checks \in BOOLEAN
    /\ \E checksum_enabled \in BOOLEAN :
          /\ \E first \in LinkFirstCounters(number_size) :
                /\ tx_state = [new_tx_state(checksum_enabled)
                                  EXCEPT !.number_to_send = first]
                /\ link = [NoLink EXCEPT !.first = first]
          /\ rx_state = new_rx_state(checksum_enabled)
    /\ tx_stats = new_statistics
    /\ rx_stats = new_statistics
    /\ serial = [to_read |-> << >>, written |-> << >>]
    /\ call = NoCall
    /\ counter = NoCounter
    /\ limiter = NoLimiter

\* the bytes of the latest packet once the TX has handed over byte; the TX
\* held pending before
wire_after_byte(wire, pending, byte) ==
    IF pending = << >> THEN <<byte>> ELSE Append(wire, byte)

\* the link, after the TX has handed it a byte which left pending in the TX
link_after_byte(l, pending) ==
    IF pending = << >>
    THEN [l EXCEPT !.packets = @ + 1,
                   !.dropped = IF l.dropping THEN @ + 1 ELSE @,
                   !.last_kept = ~l.dropping,
                   !.dropping = FALSE]
    ELSE l

\* TxState::take: the TX sends its next byte, which the link carries
\* unless it is removing the packet
LinkSend ==
    /\ call.result # "Panic"
    /\ tx_state.data_to_send = << >> => link.packets < MaxPackets
    /\ Len(serial.to_read) < number_size + 2
    /\ tx_state' = take(tx_state, number_size)
    /\ serial' = IF link.dropping THEN serial
                 ELSE [serial EXCEPT
                          !.to_read = Append(@, peek(tx_state, number_size))]
    /\ link' = link_after_byte(
                   [link EXCEPT !.wire = wire_after_byte(
                       @, tx_state.data_to_send, peek(tx_state, number_size))],
                   tx_state'.data_to_send)
    /\ UNCHANGED <<number_size, overflow_checks, rx_state, tx_stats, rx_stats,
                   call, other_vars>>

\* the link decides to remove the next packet (not the first one)
LinkRemove ==
    /\ call.result # "Panic"
    /\ tx_state.data_to_send = << >>
    /\ ~link.dropping
    /\ link.packets >= 1
    /\ link.packets < MaxPackets
    /\ link.dropped < MaxDropped
    /\ link' = [link EXCEPT !.dropping = TRUE]
    /\ UNCHANGED <<number_size, overflow_checks, tx_state, rx_state, tx_stats,
                   rx_stats, serial, call, other_vars>>

\* RxState::on_byte_received: the RX consumes the next byte of the link
LinkRecv ==
    /\ call.result # "Panic"
    /\ serial.to_read # << >>
    /\ serial' = [serial EXCEPT !.to_read = Tail(@)]
    /\ IF on_byte_received_panics(rx_state, Head(serial.to_read), number_size,
                                  overflow_checks)
       THEN /\ call' = [call EXCEPT !.result = "Panic"]
            /\ UNCHANGED rx_state
       ELSE /\ rx_state' = on_byte_received(rx_state, Head(serial.to_read),
                                            number_size)
            /\ UNCHANGED call
    /\ UNCHANGED <<number_size, overflow_checks, tx_state, tx_stats, rx_stats,
                   link, other_vars>>

NextLink == LinkSend \/ LinkRemove \/ LinkRecv

SpecLink == InitLink /\ [][NextLink]_vars

(***************************************************************************)
(* SpecFeed: a fresh RX state machine for u16 counters, checksum enabled,  *)
(* consumes a given byte stream; link.fed is what it has consumed so far.  *)
(***************************************************************************)
RECURSIVE tx_bytes(_, _, _)
\* the next n bytes a TX sends: peek, then take, n times
tx_bytes(tx, n, sz) ==
    IF n = 0 THEN << >>
    ELSE <<peek(tx, sz)>> \o tx_bytes(take(tx, sz), n - 1, sz)

\* the packet of the counter v as a TX standing at v sends it
PacketOf(v, sz, checksum_enabled) ==
    tx_bytes([new_tx_state(checksum_enabled) EXCEPT !.number_to_send = v],
             sz + 2, sz)

\* the u16 counters 0x0101, 0x0102, 0x0201, 0x0301, 0x0401
FeedCounters == {257, 258, 513, 769, 1025}

\* bytes that are no packet
FeedGarbage == {<<170, 187, 204>>, <<170, 187>>}

\* bytes received in the place of the CRC of the garbage
FeedBadCrc == {0, 85, 207}

\* the streams fed: three packets, or garbage framed as a packet and a packet
FeedStreams ==
    {PacketOf(a, 2, TRUE) \o PacketOf(b, 2, TRUE) \o PacketOf(c, 2, TRUE) :
        a \in FeedCounters, b \in FeedCounters, c \in FeedCounters}
    \cup {g \o <<0, x>> \o PacketOf(c, 2, TRUE) :
        g \in FeedGarbage, x \in FeedBadCrc, c \in FeedCounters}

InitFeed ==
    /\ MoreIdle
    /\ number_size = 2
    /\ overflow_checks \in BOOLEAN
    /\ tx_state = new_tx_state(TRUE)
    /\ rx_state = new_rx_state(TRUE)
    /\ tx_stats = new_statistics
    /\ rx_stats = new_statistics
    /\ \E stream \in FeedStreams :
          serial = [to_read |-> stream, written |-> << >>]
    /\ call = NoCall
    /\ link = NoLink
    /\ counter = NoCounter
    /\ limiter = NoLimiter

\* RxState::on_byte_received: the RX consumes the next byte of the stream
FeedRecv ==
    /\ call.result # "Panic"
    /\ serial.to_read # << >>
    /\ serial' = [serial EXCEPT !.to_read = Tail(@)]
    /\ link' = [link EXCEPT !.fed = Append(@, Head(serial.to_read))]
    /\ IF on_byte_received_panics(rx_state, Head(serial.to_read), number_size,
                                  overflow_checks)
       THEN /\ call' = [call EXCEPT !.result = "Panic"]
            /\ UNCHANGED rx_state
       ELSE /\ rx_state' = on_byte_received(rx_state, Head(serial.to_read),
                                            number_size)
            /\ UNCHANGED call
    /\ UNCHANGED <<number_size, overflow_checks, tx_state, tx_stats, rx_stats,
                   other_vars>>

NextFeed == FeedRecv

SpecFeed == InitFeed /\ [][NextFeed]_vars

(***************************************************************************)
(* SpecCounter: the Counter and LeBytes functions applied to a counter     *)
(* value.  counter.start is the value drawn, counter.self the value after  *)
(* the counter.steps pop and push calls listed in counter.ops, counter.out *)
(* what the last                                                           *)
(* pop returned, and counter.obs the last into_packet, from_slice_checked  *)
(* or distance evaluation with its arguments and its result; one such      *)
(* evaluation is recorded between two calls of pop or push.                *)
(***************************************************************************)
\* byte values at the borders of the counter digits, and the invalid 0
EdgeBytes == {0, 1, 2, 128, 254, 255}

\* the counter values drawn: every u8, and the u16 made of border bytes
CounterInputs(sz) ==
    IF sz = 1 THEN 0..255
    ELSE {from_le_bytes(<<a, b>>) : a \in EdgeBytes, b \in EdgeBytes}

\* second operands of distance besides the values at hand
EdgeCounters(sz) ==
    IF sz = 1 THEN {0, 1, 2, 128, 255}
    ELSE {from_le_bytes(<<a, b>>) : a \in {0, 1, 2, 255}, b \in {0, 1, 2, 255}}

NoObs == [op |-> "none", arg |-> << >>, out |-> << >>]

InitCounter ==
    /\ MoreIdle
    /\ number_size \in NumberSizes
    /\ overflow_checks = TRUE
    /\ tx_state = new_tx_state(TRUE)
    /\ rx_state = new_rx_state(TRUE)
    /\ tx_stats = new_statistics
    /\ rx_stats = new_statistics
    /\ serial = [to_read |-> << >>, written |-> << >>]
    /\ call = NoCall
    /\ link = NoLink
    /\ \E start \in CounterInputs(number_size) :
          counter = [NoCounter EXCEPT !.start = start, !.self = start]
    /\ limiter = NoLimiter

\* Counter::pop on counter.self
CounterPop ==
    /\ Len(counter.ops) < MaxWalk
    /\ \E popped \in {pop(counter.self, number_size)} :
          counter' = [counter EXCEPT !.self = popped.self,
                                     !.out = Some(popped.out),
                                     !.ops = Append(@, "pop"),
                                     !.steps = @ + 1,
                                     !.obs = NoObs]
    /\ UNCHANGED <<counting_vars, limiter, more_vars>>

\* Counter::push on counter.self
CounterPush ==
    /\ Len(counter.ops) < MaxWalk
    /\ counter' = [counter EXCEPT !.self = push(counter.self, number_size),
                                  !.ops = Append(@, "push"),
                                  !.steps = @ + 1,
                                  !.obs = NoObs]
    /\ UNCHANGED <<counting_vars, limiter, more_vars>>

\* counter.self.to_le_bytes().into_packet(checksum_enabled)
CounterEncode ==
    /\ counter.obs.op = "none"
    /\ \E checksum_enabled \in BOOLEAN :
          counter' = [counter EXCEPT !.obs =
              [op |-> "encode",
               arg |-> <<counter.self, checksum_enabled>>,
               out |-> into_packet(to_le_bytes(counter.self, number_size),
                                   checksum_enabled)]]
    /\ UNCHANGED <<counting_vars, limiter, more_vars>>

RECURSIVE pop_bytes(_, _)
\* the bytes a receiver gets by popping n times from the end of a packet
pop_bytes(packet, n) ==
    IF n = 0 \/ packet = << >> THEN << >>
    ELSE <<packet[Len(packet)]>>
             \o pop_bytes(SubSeq(packet, 1, Len(packet) - 1), n - 1)

\* from_slice_checked then from_le_bytes: the counter decoded, or None
decode_counter(slice, checksum, sz) ==
    IF IsSome(from_slice_checked(slice, checksum, sz))
    THEN Some(from_le_bytes(Unwrap(from_slice_checked(slice, checksum, sz))))
    ELSE None

\* the first n bytes popped from the packet last built are decoded, with
\* the checksum byte of the packet or with no checksum
CounterDecode ==
    /\ counter.obs.op = "encode"
    /\ \E n \in 0..(number_size + 1), with_checksum \in BOOLEAN :
          \E checksum \in {IF with_checksum THEN Some(counter.obs.out[1])
                                            ELSE None} :
              counter' = [counter EXCEPT !.obs =
                  [op |-> "decode",
                   arg |-> <<counter.obs.arg[1], counter.obs.arg[2], n,
                             with_checksum>>,
                   out |-> decode_counter(pop_bytes(counter.obs.out, n),
                                          checksum, number_size)]]
    /\ UNCHANGED <<counting_vars, limiter, more_vars>>

\* the counters distance may be asked about
DistanceOperands ==
    {counter.self} \cup EdgeCounters(number_size)
        \cup (IF IsSome(counter.out) THEN {Unwrap(counter.out)} ELSE {})

\* Counter::distance(left, right): the distance, or the panic of expect()
distance_or_panic(left, right, sz) ==
    IF distance_panics(left, right, sz) THEN "Panic"
    ELSE distance(left, right, sz)

\* Counter::distance between counter.self and another counter, either way
CounterDistance ==
    /\ counter.obs.op = "none"
    /\ \E value \in DistanceOperands :
          \E pair \in {<<counter.self, value>>, <<value, counter.self>>} :
              counter' = [counter EXCEPT !.obs =
                  [op |-> "distance",
                   arg |-> pair,
                   out |-> distance_or_panic(pair[1], pair[2], number_size)]]
    /\ UNCHANGED <<counting_vars, limiter, more_vars>>

NextCounter ==
    CounterPop \/ CounterPush \/ CounterEncode \/ CounterDecode
        \/ CounterDistance

SpecCounter == InitCounter /\ [][NextCounter]_vars

(***************************************************************************)
(* SpecCycle: pop is called over and over on a valid counter until the     *)
(* counter is back at the value it started from, or until it has been      *)
(* called as many times as there are valid counters.                       *)
(***************************************************************************)
\* the counters the walk starts from: every valid u8; for u16 min and a
\* counter in the middle of the range
CycleStarts(sz) ==
    IF sz = 1 THEN 1..255 ELSE {min_counter(2), from_le_bytes(<<255, 128>>)}

InitCycle ==
    /\ MoreIdle
    /\ number_size \in NumberSizes
    /\ overflow_checks = TRUE
    /\ tx_state = new_tx_state(TRUE)
    /\ rx_state = new_rx_state(TRUE)
    /\ tx_stats = new_statistics
    /\ rx_stats = new_statistics
    /\ serial = [to_read |-> << >>, written |-> << >>]
    /\ call = NoCall
    /\ link = NoLink
    /\ \E start \in CycleStarts(number_size) :
          counter = [NoCounter EXCEPT !.start = start, !.self = start]
    /\ limiter = NoLimiter

\* Counter::pop on counter.self
CyclePop ==
    /\ counter.steps < Pow(255, number_size)
    /\ counter.steps = 0 \/ counter.self # counter.start
    /\ \E popped \in {pop(counter.self, number_size)} :
          counter' = [counter EXCEPT !.self = popped.self,
                                     !.out = Some(popped.out),
                                     !.steps = @ + 1]
    /\ UNCHANGED <<counting_vars, limiter, more_vars>>

NextCycle == CyclePop

SpecCycle == InitCycle /\ [][NextCycle]_vars

(***************************************************************************)
(* SpecFill: an RX state machine consumes bytes that a noisy line chooses  *)
(* freely, long runs without a terminator included.  link.bytes counts     *)
(* the bytes consumed and link.byte is the last of them.                   *)
(***************************************************************************)
\* the bytes the line delivers: the terminator, the low byte of min and
\* another non-zero byte
FillBytes == {0, 1, 146}

InitFill ==
    /\ MoreIdle
    /\ number_size \in NumberSizes
    /\ overflow_checks \in BOOLEAN
    /\ \E checksum_enabled \in BOOLEAN :
          /\ tx_state = new_tx_state(checksum_enabled)
          /\ rx_state = new_rx_state(checksum_enabled)
    /\ tx_stats = new_statistics
    /\ rx_stats = new_statistics
    /\ serial = [to_read |-> << >>, written |-> << >>]
    /\ call = NoCall
    /\ link = [bytes |-> 0, byte |-> 0]
    /\ counter = NoCounter
    /\ limiter = NoLimiter

\* RxState::on_byte_received: the RX consumes a byte of the line
FillRecv ==
    /\ call.result # "Panic"
    /\ link.bytes < MaxFill
    /\ \E byte \in FillBytes :
          /\ link' = [bytes |-> link.bytes + 1, byte |-> byte]
          /\ IF on_byte_received_panics(rx_state, byte, number_size,
                                        overflow_checks)
             THEN /\ call' = [call EXCEPT !.result = "Panic"]
                  /\ UNCHANGED rx_state
             ELSE /\ rx_state' = on_byte_received(rx_state, byte, number_size)
                  /\ UNCHANGED call
    /\ UNCHANGED <<number_size, overflow_checks, tx_state, tx_stats, rx_stats,
                   serial, other_vars>>

NextFill == FillRecv

SpecFill == InitFill /\ [][NextFill]_vars

(***************************************************************************)
(* SpecSend: a Counting orchestrator whose caller only calls send_nb, on a *)
(* serial that answers Ok, WouldBlock or an error to every write.          *)
(***************************************************************************)
\* the caller calls send_nb
SendOnly ==
    /\ tx_stats.successful + tx_stats.failed < MaxSendCalls
    /\ \E w \in WriteOutcomes :
          \E done \in {send_nb(Self, w, number_size)} :
              /\ Store(done.self)
              /\ call' = [op |-> "send_nb", recv_res |-> "None",
                          send_res |-> done.res, result |-> done.res,
                          log |-> done.self.log, count |-> call.count]
    /\ UNCHANGED <<number_size, overflow_checks, link, other_vars>>

NextSend == SendOnly

SpecSend == Init /\ [][NextSend]_vars

(***************************************************************************)

(* SpecReset: a Counting orchestrator on a serial that delivers a stream   *)
(* of two packets.  The caller calls recv_nb, send_nb and reset in any     *)
(* order; call.resets counts the calls of reset.                           *)
(***************************************************************************)
\* the counters a TX stands at before it sends the packets of the stream
ResetCounters(sz) == IF sz = 1 THEN {0, 1, 4} ELSE {0, 257, 1025}

\* the streams delivered: two packets
ResetStreams(sz, checksum_enabled) ==
    {PacketOf(a, sz, checksum_enabled) \o PacketOf(b, sz, checksum_enabled) :
        a \in ResetCounters(sz), b \in ResetCounters(sz)}

InitReset ==
    /\ MoreIdle
    /\ number_size \in NumberSizes
    /\ overflow_checks \in BOOLEAN
    /\ \E checksum_enabled \in BOOLEAN :
          /\ tx_state = new_tx_state(checksum_enabled)
          /\ rx_state = new_rx_state(checksum_enabled)
          /\ \E stream \in ResetStreams(number_size, checksum_enabled) :
                serial = [to_read |-> stream, written |-> << >>]
    /\ tx_stats = new_statistics
    /\ rx_stats = new_statistics
    /\ call = [op |-> "none", recv_res |-> "None", send_res |-> "None",
               result |-> "None", log |-> << >>, count |-> 0, resets |-> 0]
    /\ link = NoLink
    /\ counter = NoCounter
    /\ limiter = NoLimiter

\* the state variables take the fields of the Counting value c
StoreCounting(c) ==
    /\ tx_state' = c.tx_state
    /\ rx_state' = c.rx_state
    /\ tx_stats' = c.tx_stats
    /\ rx_stats' = c.rx_stats

\* the caller calls recv_nb and the serial delivers the next byte of the
\* stream
ResetRecvNb ==
    /\ call.result # "Panic"
    /\ serial.to_read # << >>
    /\ \E done \in {recv_nb(Self, <<"Ok", Head(serial.to_read)>>, number_size,
                             overflow_checks)} :
          /\ StoreCounting(done.self)
          /\ call' = [call EXCEPT !.op = "recv_nb", !.recv_res = done.res,
                                  !.send_res = "None", !.result = done.res,
                                  !.log = done.self.log]
    /\ serial' = [serial EXCEPT !.to_read = Tail(@)]
    /\ UNCHANGED <<number_size, overflow_checks, link, other_vars>>

\* the caller calls send_nb
ResetSendNb ==
    /\ call.result # "Panic"
    /\ tx_stats.successful + tx_stats.failed < MaxSent
    /\ \E w \in WriteOutcomes :
          \E done \in {send_nb(Self, w, number_size)} :
              /\ StoreCounting(done.self)
              /\ serial' = [serial EXCEPT !.written = done.self.written]
              /\ call' = [call EXCEPT !.op = "send_nb", !.recv_res = "None",
                                      !.send_res = done.res,
                                      !.result = done.res,
                                      !.log = done.self.log]
    /\ UNCHANGED <<number_size, overflow_checks, link, other_vars>>

\* the caller calls reset
Reset ==
    /\ call.result # "Panic"
    /\ call.resets < MaxResets
    /\ \E done \in {counting_reset(Self)} :
          /\ StoreCounting(done)
          /\ call' = [call EXCEPT !.op = "reset", !.recv_res = "None",
                                  !.send_res = "None", !.result = "None",
                                  !.log = done.log, !.resets = @ + 1]
    /\ UNCHANGED <<number_size, overflow_checks, serial, link, other_vars>>

NextReset == ResetRecvNb \/ ResetSendNb \/ Reset

SpecReset == InitReset /\ [][NextReset]_vars

(***************************************************************************)
(* byte_rate/limit/polling.rs: PollingByteRateLimiter.  Instants and       *)
(* durations are whole ticks of the clock.  A call reads the clock as      *)
(* often as the code does and gets the same instant each time: the clock   *)
(* advances between calls.  The limiter record holds max_rate, state (with *)
(* remaining for Running), timer and timer_end_time; at_deadline tells     *)
(* whether the Timer of embedded_timers reports itself expired at the very *)
(* instant of its deadline or only after it, and instant_max is the last   *)
(* instant the Instant type of the clock can tell.                         *)
(***************************************************************************)
\* ByteRate::new
new_byte_rate(bytes, interval) == [bytes |-> bytes, interval |-> interval]

\* a faulty variant of initial_state: a zero interval is not told apart
initial_state_by_bytes(max_rate) ==
    IF max_rate.bytes = 0 THEN "Limiting" ELSE "Idle"

\* the state set_byte_rate chooses for max_rate
initial_state(max_rate) ==
    IF max_rate.interval = 0 THEN "Unlimited"
    ELSE IF max_rate.bytes = 0 THEN "Limiting"
    ELSE "Idle"

\* PollingByteRateLimiter::new, which ends with set_byte_rate
new_limiter(max_rate, now, at_deadline, instant_max) ==
    [max_rate |-> max_rate, state |-> initial_state(max_rate), remaining |-> 0,
     timer |-> None, timer_end_time |-> now, at_deadline |-> at_deadline,
     instant_max |-> instant_max]

\* Instant::checked_add(duration): None past the last instant the clock
\* can tell
checked_add(instant, duration, instant_max) ==
    IF instant + duration > instant_max THEN None
    ELSE Some(instant + duration)

\* Timer::try_start(duration) answers TimerError::Overflow when
\* now + duration is past the last instant
try_start_overflows(l, duration, now) ==
    ~IsSome(checked_add(now, duration, l.instant_max))

\* Timer::try_start(duration): the timer runs until now + duration
try_start(l, duration, now) ==
    [l EXCEPT !.timer = Some([expiration_time |-> now + duration])]

\* Timer::is_expired of a started timer
is_expired(timing, now, at_deadline) ==
    IF at_deadline THEN now >= timing.expiration_time
    ELSE now > timing.expiration_time

\* timer_expired: is_expired().expect("timer malfunction") fails on a
\* timer that was never started
timer_malfunction(l) == ~IsSome(l.timer)

\* PollingByteRateLimiter::timer_expired
timer_expired(l, now) ==
    IsSome(l.timer) /\ is_expired(Unwrap(l.timer), now, l.at_deadline)

\* a faulty variant of can_send: Limiting with a budget of zero bytes is
\* not told apart from Limiting until the timer expires, and a timer never
\* started counts as expired
can_send_zero_budget(l, now) ==
    IF l.state = "Idle" THEN TRUE
    ELSE IF l.state = "Unlimited" THEN TRUE
    ELSE IF l.state = "Running" /\ l.remaining > 0 THEN TRUE
    ELSE timer_malfunction(l) \/ timer_expired(l, now)

\* PollingByteRateLimiter::can_send
can_send(l, now) ==
    IF l.state = "Idle" THEN TRUE
    ELSE IF l.state = "Unlimited" THEN TRUE
    ELSE IF l.state = "Running" /\ l.remaining > 0 THEN TRUE
    ELSE IF l.state = "Running" THEN timer_expired(l, now)
    ELSE IF l.max_rate.bytes = 0 THEN FALSE
    ELSE timer_expired(l, now)

\* Timer::duration_left of a started timer: the time to its deadline; what
\* it answers once the deadline is reached is left open (an error, which
\* .ok() turns into None, or a duration of zero)
duration_left(timing, now) ==
    IF timing.expiration_time > now
    THEN {Some(timing.expiration_time - now)}
    ELSE {None, Some(0)}

\* PollingByteRateLimiter::duration_until_reset: the answers it can give
duration_until_reset(l, now) ==
    IF l.state = "Unlimited" THEN {None}
    ELSE IF ~IsSome(l.timer) THEN {None}
    ELSE duration_left(Unwrap(l.timer), now)

RECURSIVE fit_timer_end_time(_, _, _, _)
\* the while loop of fit_timer_duration: timer_end_time advances by the
\* interval while it is before now, and the loop is left with
\* TimerError::Overflow when checked_add fails
fit_timer_end_time(timer_end_time, duration, now, instant_max) ==
    IF timer_end_time < now
    THEN IF IsSome(checked_add(timer_end_time, duration, instant_max))
         THEN fit_timer_end_time(timer_end_time + duration, duration, now,
                                 instant_max)
         ELSE [timer_end_time |-> timer_end_time, res |-> "Err(Overflow)"]
    ELSE [timer_end_time |-> timer_end_time, res |-> "Ok"]

\* the while loop of fit_timer_duration never ends: timer_end_time is
\* before now and the interval added to it is zero
fit_never_ends(l, now) == l.max_rate.interval = 0 /\ l.timer_end_time < now

\* fit_timer_duration once its loop is left
fit_timer_fitted(l, fit) ==
    [self |-> [l EXCEPT !.timer_end_time = fit.timer_end_time],
     res |-> fit.res]

\* PollingByteRateLimiter::fit_timer_duration: the limiter it leaves and
\* whether it returned a duration (timer_end_time - now)
fit_timer_duration(l, now) ==
    IF fit_never_ends(l, now) THEN [self |-> l, res |-> "NoReturn"]
    ELSE fit_timer_fitted(l, fit_timer_end_time(l.timer_end_time,
                                 l.max_rate.interval, now, l.instant_max))

\* a faulty variant of restart_timer: the timer is started and the state
\* is Running, with the bytes that were left
restart_timer_no_refill(fit, now) ==
    IF fit.res # "Ok" THEN fit
    ELSE [self |-> [try_start(fit.self, fit.self.timer_end_time - now, now)
                       EXCEPT !.state = "Running"],
          res |-> "Ok"]

\* a faulty variant of restart_timer: the budget is refilled before the
\* result of fit_timer_duration() is looked at
restart_timer_refill_first(fit, now) ==
    IF fit.res # "Ok"
    THEN [self |-> [fit.self EXCEPT !.state = "Running",
                                    !.remaining = fit.self.max_rate.bytes],
          res |-> fit.res]
    ELSE [self |-> [try_start(fit.self, fit.self.timer_end_time - now, now)
                       EXCEPT !.state = "Running",
                              !.remaining = fit.self.max_rate.bytes],
          res |-> "Ok"]

\* restart after fit_timer_duration()?: the timer is started for the
\* duration up to timer_end_time and the budget is refilled
restart_timer(fit, now) ==
    IF fit.res # "Ok" THEN fit
    ELSE [self |-> [try_start(fit.self, fit.self.timer_end_time - now, now)
                       EXCEPT !.state = "Running",
                              !.remaining = fit.self.max_rate.bytes],
          res |-> "Ok"]

\* PollingByteRateLimiter::restart
restart(l, now) == restart_timer(fit_timer_duration(l, now), now)

\* the end of send_running: one byte is taken from the remaining budget
send_counted(l, remaining) ==
    IF remaining > 1
    THEN [self |-> [l EXCEPT !.state = "Running", !.remaining = remaining - 1],
          res |-> "Ok(true)"]
    ELSE [self |-> [l EXCEPT !.state = "Limiting", !.remaining = 0],
          res |-> "Ok(false)"]

\* self.restart()?; self.send() of send_running and send_limiting: an
\* error of restart() is returned; otherwise the state is Running(bytes),
\* and when the timer just started is expired already, restart() and
\* send() call each other without end
send_restarted(restarted, now) ==
    IF restarted.res # "Ok" THEN restarted
    ELSE IF timer_expired(restarted.self, now)
    THEN [self |-> restarted.self, res |-> "NoReturn"]
    ELSE send_counted(restarted.self, restarted.self.remaining)

\* PollingByteRateLimiter::send_running
send_running(l, remaining, now) ==
    IF timer_expired(l, now) THEN send_restarted(restart(l, now), now)
    ELSE send_counted(l, remaining)

\* PollingByteRateLimiter::send_idle
send_idle(l, now) ==
    IF try_start_overflows(l, l.max_rate.interval, now)
    THEN [self |-> l, res |-> "Err(Overflow)"]
    ELSE IF ~IsSome(checked_add(now, l.max_rate.interval, l.instant_max))
    THEN [self |-> try_start(l, l.max_rate.interval, now),
          res |-> "Err(Overflow)"]
    ELSE send_running([try_start(l, l.max_rate.interval, now)
                          EXCEPT !.timer_end_time = now + l.max_rate.interval],
                      l.max_rate.bytes, now)

\* PollingByteRateLimiter::send_limiting
send_limiting(l, now) ==
    IF l.max_rate.bytes = 0 THEN [self |-> l, res |-> "Ok(false)"]
    ELSE IF timer_expired(l, now) THEN send_restarted(restart(l, now), now)
    ELSE [self |-> l, res |-> "Ok(false)"]

\* PollingByteRateLimiter::send
send(l, now) ==
    IF l.state = "Idle" THEN send_idle(l, now)
    ELSE IF l.state = "Unlimited" THEN [self |-> l, res |-> "Ok(true)"]
    ELSE IF l.state = "Running" THEN send_running(l, l.remaining, now)
    ELSE send_limiting(l, now)

(***************************************************************************)
(* SpecLimiter: a PollingByteRateLimiter and its clock.  The caller calls  *)
(* send() and lets time pass.  limiter.sends lists the send() calls made:  *)
(* the instant of each and what it returned.                               *)
(***************************************************************************)
\* the rates explored: budgets of 0 to 3 bytes over 0 to 3 ticks
LimiterRates ==
    {new_byte_rate(bytes, interval) : bytes \in 0..3, interval \in 0..3}

\* the serial behind a limiter: how often it was asked to write and to
\* read, and its last call
IdleSerial == [writes |-> 0, reads |-> 0, last |-> << >>]

\* the last instant of a clock that runs out right after the instants
\* explored, and of one that does not run out within any interval explored
NearInstant == MaxTime + 1

FarInstant == MaxTime + 4

\* the limiter variable for a limiter just constructed at instant 0 on a
\* clock whose last instant is instant_max: sends lists the send() calls
\* of SpecLimiter, restarts counts the restart() calls that returned Ok,
\* and since_restart lists for the send() calls of SpecLimiterOps (those
\* after the last restart(), once there was one) what each returned and
\* whether the timer was expired when it was called
FreshLimiterOn(max_rate, at_deadline, instant_max) ==
    [rate_limit |-> new_limiter(max_rate, 0, at_deadline, instant_max),
     now |-> 0, sends |-> << >>, restarts |-> 0, since_restart |-> << >>,
     returned |-> TRUE, serial |-> IdleSerial,
     last |-> [op |-> "none", res |-> "None", word |-> None]]

\* the same on a clock that does not run out
FreshLimiter(max_rate, at_deadline) ==
    FreshLimiterOn(max_rate, at_deadline, FarInstant)

InitLimiter ==
    /\ MoreIdle
    /\ number_size = 1
    /\ overflow_checks = TRUE
    /\ tx_state = new_tx_state(TRUE)
    /\ rx_state = new_rx_state(TRUE)
    /\ tx_stats = new_statistics
    /\ rx_stats = new_statistics
    /\ serial = [to_read |-> << >>, written |-> << >>]
    /\ call = NoCall
    /\ link = NoLink
    /\ counter = NoCounter
    /\ \E max_rate \in LimiterRates, at_deadline \in BOOLEAN :
          limiter = FreshLimiter(max_rate, at_deadline)

\* the caller calls send()
LimiterSend ==
    /\ limiter.returned
    /\ Len(limiter.sends) < MaxSends
    /\ \E done \in {send(limiter.rate_limit, limiter.now)} :
          limiter' = [limiter EXCEPT
              !.rate_limit = done.self,
              !.sends = Append(@, <<limiter.now, done.res>>),
              !.returned = done.res # "NoReturn",
              !.last = [op |-> "send", res |-> done.res, word |-> None]]
    /\ UNCHANGED <<counting_vars, counter, more_vars>>

\* time passes between two calls
ClockAdvance ==
    /\ limiter.returned
    /\ \E d \in 1..(MaxTime - limiter.now) :
          limiter' = [limiter EXCEPT
              !.now = @ + d,
              !.last = [op |-> "advance", res |-> "None", word |-> None]]
    /\ UNCHANGED <<counting_vars, counter, more_vars>>

NextLimiter == LimiterSend \/ ClockAdvance

SpecLimiter == InitLimiter /\ [][NextLimiter]_vars

(***************************************************************************)
(* SpecLimiterOps: a PollingByteRateLimiter whose caller uses the whole    *)
(* interface: send(), can_send(), duration_until_reset() and restart(),    *)
(* on a clock that may run out of instants.                                *)
(***************************************************************************)
\* the rates explored: budgets of 0 to 2 bytes over 0, 2 or 3 ticks
LimiterOpsRates ==
    {new_byte_rate(bytes, interval) : bytes \in 0..2, interval \in {0, 2, 3}}

InitLimiterOps ==
    /\ MoreIdle
    /\ number_size = 1
    /\ overflow_checks = TRUE
    /\ tx_state = new_tx_state(TRUE)
    /\ rx_state = new_rx_state(TRUE)
    /\ tx_stats = new_statistics
    /\ rx_stats = new_statistics
    /\ serial = [to_read |-> << >>, written |-> << >>]
    /\ call = NoCall
    /\ link = NoLink
    /\ counter = NoCounter
    /\ \E max_rate \in LimiterOpsRates, at_deadline \in BOOLEAN,
          instant_max \in {NearInstant, FarInstant} :
          limiter = FreshLimiterOn(max_rate, at_deadline, instant_max)

\* the caller calls send(); the call is listed in since_restart
LimiterOpsSend ==
    /\ limiter.returned
    /\ Len(limiter.since_restart) < MaxSends
    /\ \E done \in {send(limiter.rate_limit, limiter.now)} :
          limiter' = [limiter EXCEPT
              !.rate_limit = done.self,
              !.since_restart = Append(@,
                  <<done.res, timer_expired(limiter.rate_limit, limiter.now)>>),
              !.returned = done.res # "NoReturn",
              !.last = [op |-> "send", res |-> done.res, word |-> None]]
    /\ UNCHANGED <<counting_vars, counter, more_vars>>

\* the caller calls can_send()
LimiterCanSend ==
    /\ limiter.returned
    /\ limiter' = [limiter EXCEPT
           !.last = [op |-> "can_send",
                     res |-> IF can_send(limiter.rate_limit, limiter.now)
                             THEN "true" ELSE "false",
                     word |-> None]]
    /\ UNCHANGED <<counting_vars, counter, more_vars>>

\* the caller calls duration_until_reset()
LimiterDurationUntilReset ==
    /\ limiter.returned
    /\ \E left \in duration_until_reset(limiter.rate_limit, limiter.now) :
          limiter' = [limiter EXCEPT
              !.last = [op |-> "duration_until_reset",
                        res |-> IF IsSome(left) THEN "Some" ELSE "None",
                        word |-> left]]
    /\ UNCHANGED <<counting_vars, counter, more_vars>>

\* the caller calls restart()
LimiterRestart ==
    /\ limiter.returned
    /\ limiter.restarts < MaxRestarts
    /\ \E done \in {restart(limiter.rate_limit, limiter.now)} :
          limiter' = [limiter EXCEPT
              !.rate_limit = done.self,
              !.restarts = IF done.res = "Ok" THEN @ + 1 ELSE @,
              !.since_restart = IF done.res = "Ok" THEN << >> ELSE @,
              !.returned = done.res # "NoReturn",
              !.last = [op |-> "restart", res |-> done.res, word |-> None]]
    /\ UNCHANGED <<counting_vars, counter, more_vars>>

NextLimiterOps ==
    \/ LimiterOpsSend
    \/ LimiterCanSend
    \/ LimiterDurationUntilReset
    \/ LimiterRestart
    \/ ClockAdvance

SpecLimiterOps == InitLimiterOps /\ [][NextLimiterOps]_vars

(***************************************************************************)
(* byte_rate/limit/limited_serial: ByteRateSerialLimiter, a serial behind  *)
(* a limiter.  The wrapper is the record of its fields rate_limit and      *)
(* serial; the serial answers every call with an outcome given to the      *)
(* operator.                                                               *)
(***************************************************************************)
\* ByteRateSerialLimiter::new
new_limited_serial(serial0, rate_limit) ==
    [rate_limit |-> rate_limit, serial |-> serial0]

\* self.serial.write(word) is called
serial_written(serial0, word, outcome) ==
    [serial0 EXCEPT !.writes = @ + 1, !.last = <<"write", word, outcome>>]

\* self.serial.read() is called
serial_read(serial0, outcome) ==
    [serial0 EXCEPT !.reads = @ + 1, !.last = <<"read", outcome>>]

\* write once self.serial.write(word) has answered Ok:
\* rate_limit.send().unwrap() panics on a timer error
write_sent(bl, sent) ==
    [self |-> [bl EXCEPT !.rate_limit = sent.self],
     res |-> IF sent.res = "NoReturn" THEN "NoReturn"
             ELSE IF sent.res = "Err(Overflow)" THEN "Panic"
             ELSE "Ok"]

\* a faulty variant of write_serial: rate_limit.send() is called whatever
\* the serial answered
write_serial_always_sent(bl, outcome, now) ==
    [self |-> write_sent(bl, send(bl.rate_limit, now)).self,
     res |-> IF outcome = "Ok"
             THEN write_sent(bl, send(bl.rate_limit, now)).res
             ELSE outcome]

\* write once can_send() was true: the serial is asked
write_serial(bl, outcome, now) ==
    IF outcome = "Ok" THEN write_sent(bl, send(bl.rate_limit, now))
    ELSE [self |-> bl, res |-> outcome]

\* a faulty variant of write: the serial is asked whatever can_send() says
write_ungated(bl, word, outcome, now) ==
    write_serial([bl EXCEPT !.serial = serial_written(@, word, outcome)],
                 outcome, now)

\* ByteRateSerialLimiter::write
write(bl, word, outcome, now) ==
    IF ~can_send(bl.rate_limit, now) THEN [self |-> bl, res |-> "WouldBlock"]
    ELSE write_serial([bl EXCEPT !.serial = serial_written(@, word, outcome)],
                      outcome, now)

\* ByteRateSerialLimiter::read
read(bl, outcome) ==
    [self |-> [bl EXCEPT !.serial = serial_read(@, outcome)], res |-> outcome]

(***************************************************************************)
(* SpecLimitedSerial: a ByteRateSerialLimiter and the clock of its         *)
(* limiter.  The caller writes, reads and lets time pass.  limiter.last is  *)
(* the last call: what it returned and the word written or read.           *)
(***************************************************************************)
\* the rates explored: unlimited, blocked, one and two bytes per two ticks
LimitedSerialRates ==
    {new_byte_rate(bytes, interval) : bytes \in 0..2, interval \in {0, 2}}

\* the words written
WriteWords == {0, 85}

\* the wrapper made of the fields held in the limiter variable
LimitedSerial == new_limited_serial(limiter.serial, limiter.rate_limit)

InitLimitedSerial ==
    /\ MoreIdle
    /\ number_size = 1
    /\ overflow_checks = TRUE
    /\ tx_state = new_tx_state(TRUE)
    /\ rx_state = new_rx_state(TRUE)
    /\ tx_stats = new_statistics
    /\ rx_stats = new_statistics
    /\ serial = [to_read |-> << >>, written |-> << >>]
    /\ call = NoCall
    /\ link = NoLink
    /\ counter = NoCounter
    /\ \E max_rate \in LimitedSerialRates, at_deadline \in BOOLEAN,
          instant_max \in {NearInstant, FarInstant} :
          limiter = FreshLimiterOn(max_rate, at_deadline, instant_max)

\* the calls the caller has made so far that reached the serial
SerialCalls == limiter.serial.writes + limiter.serial.reads

\* the caller calls write(word)
SerialWrite ==
    /\ limiter.returned
    /\ SerialCalls < MaxSends
    /\ \E word \in WriteWords, outcome \in WriteOutcomes :
          \E done \in {write(LimitedSerial, word, outcome, limiter.now)} :
              limiter' = [limiter EXCEPT
                  !.rate_limit = done.self.rate_limit,
                  !.serial = done.self.serial,
                  !.returned = done.res \notin {"NoReturn", "Panic"},
                  !.last = [op |-> "write", res |-> done.res,
                            word |-> Some(word)]]
    /\ UNCHANGED <<counting_vars, counter, more_vars>>

\* the caller calls read()
SerialRead ==
    /\ limiter.returned
    /\ SerialCalls < MaxSends
    /\ \E outcome \in ReadOutcomes :
          \E done \in {read(LimitedSerial, outcome)} :
              limiter' = [limiter EXCEPT
                  !.rate_limit = done.self.rate_limit,
                  !.serial = done.self.serial,
                  !.last = [op |-> "read", res |-> done.res[1],
                            word |-> Tail(done.res)]]
    /\ UNCHANGED <<counting_vars, counter, more_vars>>

NextLimitedSerial == SerialWrite \/ SerialRead \/ ClockAdvance

SpecLimitedSerial == InitLimitedSerial /\ [][NextLimitedSerial]_vars

(***************************************************************************)
(* loopback/mod.rs, loopback/nb.rs: Loopback.                              *)
(***************************************************************************)
\* State::Receiving
State_Receiving == [tag |-> "Receiving", byte |-> 0]

\* State::Transfer(byte)
State_Transfer(byte) == [tag |-> "Transfer", byte |-> byte]

\* Loopback::new with fresh counting statistics; `calls` lists the calls the
\* current operation made on the serial, `written` the bytes it accepted
new_loopback ==
    [state |-> State_Receiving, tx_stats |-> new_statistics,
     rx_stats |-> new_statistics, calls |-> << >>, written |-> << >>]

\* a faulty variant of loopback_on_byte_received: a byte replacing a held
\* byte is not counted as lost
loopback_on_byte_received_no_loss(l, byte) ==
    [l EXCEPT !.state = State_Transfer(byte),
              !.rx_stats = add_successful(@, 1)]

\* Loopback::on_byte_received
loopback_on_byte_received(l, byte) ==
    [IF l.state.tag = "Receiving"
     THEN l
     ELSE [l EXCEPT !.tx_stats = add_failed(@, 1)]
        EXCEPT !.state = State_Transfer(byte),
               !.rx_stats = add_successful(@, 1)]

\* Loopback::on_byte_sent
loopback_on_byte_sent(l) ==
    [l EXCEPT !.state = State_Receiving, !.tx_stats = add_successful(@, 1)]

\* Loopback::byte_to_send
loopback_byte_to_send(l) ==
    IF l.state.tag = "Receiving" THEN None ELSE Some(l.state.byte)

\* one call of the serial, as the Loopback's log keeps it
SerialCall(fn, byte, res) == [fn |-> fn, byte |-> byte, res |-> res]

\* Loopback::recv_nb, the serial answering r to read()
loopback_recv_nb_read(l, r) ==
    IF r[1] = "Ok"
    THEN [self |-> loopback_on_byte_received(l, r[2]), res |-> "Ok"]
    ELSE IF r[1] = "WouldBlock"
    THEN [self |-> l, res |-> "WouldBlock"]
    ELSE [self |-> [l EXCEPT !.rx_stats = add_failed(@, 1)], res |-> r[1]]

loopback_recv_nb(l, r) ==
    loopback_recv_nb_read(
        [l EXCEPT !.calls = Append(@, SerialCall("read",
                                 IF r[1] = "Ok" THEN r[2] ELSE 0, r[1]))],
        r)

\* Loopback::send_nb past the `?`: the serial answering w to write(byte)
loopback_send_nb_write(l, byte_to_send, w) ==
    IF w = "Ok"
    THEN [self |-> loopback_on_byte_sent(
                       [l EXCEPT !.written = Append(@, byte_to_send)]),
          res  |-> "Ok"]
    ELSE IF w = "WouldBlock"
    THEN [self |-> l, res |-> "WouldBlock"]
    ELSE [self |-> [l EXCEPT !.tx_stats = add_failed(@, 1)], res |-> w]

\* Loopback::send_nb
loopback_send_nb(l, w) ==
    IF ~IsSome(loopback_byte_to_send(l))
    THEN [self |-> l, res |-> "WouldBlock"]
    ELSE loopback_send_nb_write(
             [l EXCEPT !.calls = Append(@, SerialCall("write",
                                  Unwrap(loopback_byte_to_send(l)), w))],
             Unwrap(loopback_byte_to_send(l)), w)

\* a faulty variant of loopback_loop_nb: it reads whatever the state is
loopback_loop_nb_always_reads(l, r, w) == loopback_recv_nb(l, r)

\* Loopback::loop_nb
loopback_loop_nb(l, r, w) ==
    IF l.state.tag = "Receiving"
    THEN loopback_recv_nb(l, r)
    ELSE loopback_send_nb(l, w)

(***************************************************************************)
(* SpecLoopback: a Loopback whose caller calls recv_nb, send_nb and        *)
(* loop_nb in any order, on a serial that answers anything.  `read` lists  *)
(* the bytes the serial delivered, `errors` counts the errors it answered. *)
(***************************************************************************)
LoopbackOn(l, before, op, res) ==
    [self |-> [l EXCEPT !.calls = << >>],
     before |-> [before EXCEPT !.calls = << >>],
     read |-> loopback.read
                \o (IF l.calls # << >> /\ l.calls[1].fn = "read"
                       /\ l.calls[1].res = "Ok"
                    THEN <<l.calls[1].byte>> ELSE << >>),
     errors |-> loopback.errors
                  + (IF l.calls # << >> /\ l.calls[1].res \in SerialErrors
                     THEN 1 ELSE 0),
     last |-> [op |-> op, res |-> res, calls |-> l.calls]]

InitLoopback ==
    /\ number_size = 1
    /\ overflow_checks = TRUE
    /\ tx_state = new_tx_state(TRUE)
    /\ rx_state = new_rx_state(TRUE)
    /\ tx_stats = new_statistics
    /\ rx_stats = new_statistics
    /\ serial = [to_read |-> << >>, written |-> << >>]
    /\ call = NoCall
    /\ link = NoLink
    /\ counter = NoCounter
    /\ limiter = NoLimiter
    /\ loopback = [self |-> new_loopback, before |-> new_loopback,
                   read |-> << >>, errors |-> 0,
                   last |-> [op |-> "none", res |-> "None", calls |-> << >>]]
    /\ byte_rate = NoByteRate
    /\ measurer = NoMeasurer

\* the serial may answer r to a read and w to a write
LoopbackSerialMay(r, w) ==
    /\ r[1] = "Ok" => Len(loopback.read) < MaxLoopBytes
    /\ (r[1] \in SerialErrors \/ w \in SerialErrors)
           => loopback.errors < MaxLoopErrors

\* the caller calls recv_nb
LoopbackRecvNb ==
    /\ \E r \in ReadOutcomes :
          /\ LoopbackSerialMay(r, "Ok")
          /\ \E done \in {loopback_recv_nb(loopback.self, r)} :
                loopback' = LoopbackOn(done.self, loopback.self, "recv_nb",
                                       done.res)
    /\ UNCHANGED <<counting_vars, counter, limiter, byte_rate, measurer>>

\* the caller calls send_nb
LoopbackSendNb ==
    /\ \E w \in WriteOutcomes :
          /\ LoopbackSerialMay(<<"WouldBlock">>, w)
          /\ \E done \in {loopback_send_nb(loopback.self, w)} :
                loopback' = LoopbackOn(done.self, loopback.self, "send_nb",
                                       done.res)
    /\ UNCHANGED <<counting_vars, counter, limiter, byte_rate, measurer>>

\* the caller calls loop_nb
LoopbackLoopNb ==
    /\ \E r \in ReadOutcomes, w \in WriteOutcomes :
          /\ LoopbackSerialMay(r, w)
          /\ \E done \in {loopback_loop_nb(loopback.self, r, w)} :
                loopback' = LoopbackOn(done.self, loopback.self, "loop_nb",
                                       done.res)
    /\ UNCHANGED <<counting_vars, counter, limiter, byte_rate, measurer>>

NextLoopback == LoopbackRecvNb \/ LoopbackSendNb \/ LoopbackLoopNb

SpecLoopback == InitLoopback /\ [][NextLoopback]_vars

\* the Loopback is driven through loop_nb only
NextLoopbackLoop == LoopbackLoopNb

SpecLoopbackLoop == InitLoopback /\ [][NextLoopbackLoop]_vars

(***************************************************************************)

(* byte_rate/rate.rs: ByteRate.  usize has 32 bits.  A Duration is its     *)
(* u64 seconds, as the limbs secs_hi * 2^32 + secs, and its nanoseconds.   *)
(* A product that checked_mul accepts may exceed 2^31, so it is kept as    *)
(* its half (the factors are even) and divided from there.                 *)
(***************************************************************************)
\* Duration::new(secs, nanos), Duration::from_secs and the like
new_duration(secs_hi, secs, nanos) ==
    [secs_hi |-> secs_hi, secs |-> secs, nanos |-> nanos]

\* Duration::is_zero
is_zero(d) == d.secs_hi = 0 /\ d.secs = 0 /\ d.nanos = 0

\* ByteRate::new
rate_new(bytes, interval) == [bytes |-> bytes, interval |-> interval]

\* usize::try_from(interval.as_nanos() / as_micros() / as_millis()).ok():
\* per_sec units in a second; the value fits when its half is at most
\* USIZE32_HALF
usize_try_from_units(d, per_sec) ==
    IF /\ d.secs_hi = 0
       /\ d.secs <= USIZE32_HALF \div (per_sec \div 2)
       /\ (d.nanos \div (NANOS_PER_SEC \div per_sec)) \div 2
              <= USIZE32_HALF - d.secs * (per_sec \div 2)
    THEN Some(d.secs * per_sec + d.nanos \div (NANOS_PER_SEC \div per_sec))
    ELSE None

\* usize::try_from(interval.as_secs()).ok()
usize_try_from_secs(d) == IF d.secs_hi = 0 THEN Some(d.secs) ELSE None

\* bytes.checked_mul(factor) for an even factor, answering half the product
checked_mul_half(bytes, factor) ==
    IF bytes > USIZE32_HALF \div (factor \div 2)
    THEN None
    ELSE Some(bytes * (factor \div 2))

\* (2 * half) / divisor, the usize division of a product kept as its half
half_div(half, divisor) ==
    2 * (half \div divisor)
        + (IF (half % divisor) >= divisor - (half % divisor) THEN 1 ELSE 0)

\* the usize division a / b panics when b is zero
div_panics(b) == b = 0

\* ByteRate::bytes_per_second_sec_accuracy
bytes_per_second_sec_accuracy(r) ==
    IF is_zero(r.interval) THEN None
    ELSE IF ~IsSome(usize_try_from_secs(r.interval)) THEN None
    ELSE IF Unwrap(usize_try_from_secs(r.interval)) = 0 THEN None
    ELSE Some(r.bytes \div Unwrap(usize_try_from_secs(r.interval)))

\* ByteRate::bytes_per_second_ms_accuracy and bytes_per_second_us_accuracy,
\* which differ in the factor only
bytes_per_second_scaled(r, per_sec) ==
    IF is_zero(r.interval) THEN None
    ELSE IF ~IsSome(usize_try_from_units(r.interval, per_sec)) THEN None
    ELSE IF Unwrap(usize_try_from_units(r.interval, per_sec)) = 0 THEN None
    ELSE IF ~IsSome(checked_mul_half(r.bytes, per_sec)) THEN None
    ELSE Some(half_div(Unwrap(checked_mul_half(r.bytes, per_sec)),
                       Unwrap(usize_try_from_units(r.interval, per_sec))))

bytes_per_second_ms_accuracy(r) == bytes_per_second_scaled(r, PER_SEC_MS)

bytes_per_second_us_accuracy(r) == bytes_per_second_scaled(r, PER_SEC_US)

\* ByteRate::bytes_per_second_ns_accuracy: no test of ns against zero
bytes_per_second_ns_accuracy(r) ==
    IF is_zero(r.interval) THEN None
    ELSE IF ~IsSome(usize_try_from_units(r.interval, PER_SEC_NS)) THEN None
    ELSE IF ~IsSome(checked_mul_half(r.bytes, PER_SEC_NS)) THEN None
    ELSE IF div_panics(Unwrap(usize_try_from_units(r.interval, PER_SEC_NS)))
    THEN None
    ELSE Some(half_div(Unwrap(checked_mul_half(r.bytes, PER_SEC_NS)),
                       Unwrap(usize_try_from_units(r.interval, PER_SEC_NS))))

\* bytes_per_second_ns_accuracy reaches its division with ns = 0
bytes_per_second_ns_accuracy_panics(r) ==
    /\ ~is_zero(r.interval)
    /\ IsSome(usize_try_from_units(r.interval, PER_SEC_NS))
    /\ IsSome(checked_mul_half(r.bytes, PER_SEC_NS))
    /\ div_panics(Unwrap(usize_try_from_units(r.interval, PER_SEC_NS)))

\* a faulty variant of bytes_per_second: the coarse precisions come first
bytes_per_second_coarse_first(r) ==
    IF is_zero(r.interval) THEN None
    ELSE IF IsSome(bytes_per_second_sec_accuracy(r))
    THEN bytes_per_second_sec_accuracy(r)
    ELSE IF IsSome(bytes_per_second_ms_accuracy(r))
    THEN bytes_per_second_ms_accuracy(r)
    ELSE IF IsSome(bytes_per_second_us_accuracy(r))
    THEN bytes_per_second_us_accuracy(r)
    ELSE bytes_per_second_ns_accuracy(r)

\* ByteRate::bytes_per_second
bytes_per_second(r) ==
    IF is_zero(r.interval) THEN None
    ELSE IF IsSome(bytes_per_second_ns_accuracy(r))
    THEN bytes_per_second_ns_accuracy(r)
    ELSE IF IsSome(bytes_per_second_us_accuracy(r))
    THEN bytes_per_second_us_accuracy(r)
    ELSE IF IsSome(bytes_per_second_ms_accuracy(r))
    THEN bytes_per_second_ms_accuracy(r)
    ELSE bytes_per_second_sec_accuracy(r)

\* bytes_per_second panics: only the nanosecond division is not guarded
bytes_per_second_panics(r) == bytes_per_second_ns_accuracy_panics(r)

(***************************************************************************)
(* SpecByteRate: a ByteRate made from any of these bytes and intervals,    *)
(* asked for its bytes per second at each precision.                       *)
(***************************************************************************)
\* byte counts around the overflow of each precision on a 32 bit usize
RateBytes ==
    {0, 1, 4, 5, 146, 4294, 4295, 4294967, 4294968, 1073741823, 2147483647}

\* zero, 250 ns, 250 us, 100 ms, 500 ms, 1 s, 1.5 s, 2 s, 5 s, 5000 s,
\* 5000000 s and 2^32 s
RateIntervals ==
    {new_duration(0, 0, 0), new_duration(0, 0, 250),
     new_duration(0, 0, 250000), new_duration(0, 0, 100000000),
     new_duration(0, 0, 500000000), new_duration(0, 1, 0),
     new_duration(0, 1, 500000000),
     new_duration(0, 2, 0), new_duration(0, 5, 0), new_duration(0, 5000, 0),
     new_duration(0, 5000000, 0), new_duration(1, 0, 0)}

InitByteRate ==
    /\ number_size = 1
    /\ overflow_checks = TRUE
    /\ tx_state = new_tx_state(TRUE)
    /\ rx_state = new_rx_state(TRUE)
    /\ tx_stats = new_statistics
    /\ rx_stats = new_statistics
    /\ serial = [to_read |-> << >>, written |-> << >>]
    /\ call = NoCall
    /\ link = NoLink
    /\ counter = NoCounter
    /\ limiter = NoLimiter
    /\ loopback = NoLoopback
    /\ \E bytes \in RateBytes, interval \in RateIntervals :
          byte_rate = [self |-> rate_new(bytes, interval), op |-> "none",
                       out |-> None, panicked |-> FALSE]
    /\ measurer = NoMeasurer

\* the ByteRate after the caller asked op, which answered out or panicked
ByteRateAsked(op, out, panicked) ==
    [byte_rate EXCEPT !.op = op,
                      !.out = IF panicked THEN None ELSE out,
                      !.panicked = panicked]

BytesPerSecond ==
    /\ byte_rate' = ByteRateAsked("bytes_per_second",
                                  bytes_per_second(byte_rate.self),
                                  bytes_per_second_panics(byte_rate.self))
    /\ UNCHANGED <<counting_vars, counter, limiter, loopback, measurer>>

BytesPerSecondNs ==
    /\ byte_rate' = ByteRateAsked("bytes_per_second_ns_accuracy",
                          bytes_per_second_ns_accuracy(byte_rate.self),
                          bytes_per_second_ns_accuracy_panics(byte_rate.self))
    /\ UNCHANGED <<counting_vars, counter, limiter, loopback, measurer>>

BytesPerSecondUs ==
    /\ byte_rate' = ByteRateAsked("bytes_per_second_us_accuracy",
                          bytes_per_second_us_accuracy(byte_rate.self), FALSE)
    /\ UNCHANGED <<counting_vars, counter, limiter, loopback, measurer>>

BytesPerSecondMs ==
    /\ byte_rate' = ByteRateAsked("bytes_per_second_ms_accuracy",
                          bytes_per_second_ms_accuracy(byte_rate.self), FALSE)
    /\ UNCHANGED <<counting_vars, counter, limiter, loopback, measurer>>

BytesPerSecondSec ==
    /\ byte_rate' = ByteRateAsked("bytes_per_second_sec_accuracy",
                          bytes_per_second_sec_accuracy(byte_rate.self), FALSE)
    /\ UNCHANGED <<counting_vars, counter, limiter, loopback, measurer>>

NextByteRate ==
    \/ BytesPerSecond
    \/ BytesPerSecondNs
    \/ BytesPerSecondUs
    \/ BytesPerSecondMs
    \/ BytesPerSecondSec

SpecByteRate == InitByteRate /\ [][NextByteRate]_vars

(***************************************************************************)

(* byte_rate/measure/interval.rs: IntervalByteRateMeasurer.  The clock     *)
(* counts ticks and stands still during a call, as for the limiter.        *)
(***************************************************************************)
\* IntervalByteRateMeasurer::new at instant now: `timer.try_start(interval)
\* .ok()` leaves the timer unstarted when it overflows
new_measurer(interval, now, at_deadline, instant_max) ==
    [current_rate |-> new_byte_rate(0, interval),
     output_rate |-> new_byte_rate(0, interval),
     timer |-> IF IsSome(checked_add(now, interval, instant_max))
               THEN Some([expiration_time |-> now + interval])
               ELSE None,
     timer_end_time |-> now, at_deadline |-> at_deadline,
     instant_max |-> instant_max]

\* IntervalByteRateMeasurer::reset
measurer_reset(m, now) ==
    [m EXCEPT !.current_rate.bytes = 0,
              !.output_rate = [m.current_rate EXCEPT !.bytes = 0],
              !.timer_end_time = now]

\* self.timer.is_expired().unwrap_or(true)
measurer_timer_expired(m, now) ==
    IF IsSome(m.timer)
    THEN is_expired(Unwrap(m.timer), now, m.at_deadline)
    ELSE TRUE

\* the while loop of fit_timer_duration never ends: the interval added to
\* a timer_end_time before now is zero
measurer_fit_never_ends(m, now) ==
    m.current_rate.interval = 0 /\ m.timer_end_time < now

\* restart once the loop of fit_timer_duration is left: an Overflow is
\* returned, else the timer is started for the duration up to timer_end_time
measurer_restart_fitted(m, fit, now) ==
    IF fit.res # "Ok"
    THEN [self |-> [m EXCEPT !.timer_end_time = fit.timer_end_time],
          res |-> fit.res]
    ELSE [self |-> try_start([m EXCEPT !.timer_end_time = fit.timer_end_time],
                             fit.timer_end_time - now, now),
          res |-> "Ok"]

\* IntervalByteRateMeasurer::restart with fit_timer_duration
measurer_restart(m, now) ==
    IF measurer_fit_never_ends(m, now) THEN [self |-> m, res |-> "NoReturn"]
    ELSE measurer_restart_fitted(m,
             fit_timer_end_time(m.timer_end_time, m.current_rate.interval,
                                now, m.instant_max),
             now)

\* the end of on_byte: amount is added to the current count
on_byte_counted(m, amount) ==
    [m EXCEPT !.current_rate.bytes = @ + amount]

\* on_byte after `self.restart().ok()`: the error is dropped
on_byte_restarted(restarted, amount) ==
    IF restarted.res = "NoReturn"
    THEN [self |-> restarted.self, res |-> "NoReturn", published |-> TRUE]
    ELSE [self |-> on_byte_counted(restarted.self, amount), res |-> "Ok",
          published |-> TRUE]

\* IntervalByteRateMeasurer::on_byte: on an expired timer the current count
\* is published as output_rate and a new window is started
on_byte(m, amount, now) ==
    IF measurer_timer_expired(m, now)
    THEN on_byte_restarted(
             measurer_restart([m EXCEPT !.output_rate = m.current_rate,
                                        !.current_rate.bytes = 0], now),
             amount)
    ELSE [self |-> on_byte_counted(m, amount), res |-> "Ok",
          published |-> FALSE]

(***************************************************************************)
(* SpecMeasurer: an IntervalByteRateMeasurer constructed at instant 0 and  *)
(* its clock.  reset_at is the instant of the last reset(), published the  *)
(* number of publications since then.                                      *)
(***************************************************************************)
MeasurerIntervals == {0, 2, 3}

InitMeasurer ==
    /\ number_size = 1
    /\ overflow_checks = TRUE
    /\ tx_state = new_tx_state(TRUE)
    /\ rx_state = new_rx_state(TRUE)
    /\ tx_stats = new_statistics
    /\ rx_stats = new_statistics
    /\ serial = [to_read |-> << >>, written |-> << >>]
    /\ call = NoCall
    /\ link = NoLink
    /\ counter = NoCounter
    /\ limiter = NoLimiter
    /\ loopback = NoLoopback
    /\ byte_rate = NoByteRate
    /\ \E interval \in MeasurerIntervals, at_deadline \in BOOLEAN,
          instant_max \in {NearInstant, FarInstant} :
          measurer = [self |-> new_measurer(interval, 0, at_deadline,
                                            instant_max),
                      now |-> 0, resets |-> 0, reset_at |-> None,
                      published |-> 0, returned |-> TRUE,
                      last |-> [op |-> "none", res |-> "None",
                                published |-> FALSE]]

\* the caller calls on_byte(amount)
MeasurerOnByte ==
    /\ measurer.returned
    /\ \E amount \in {1, 2} :
          /\ measurer.self.current_rate.bytes + amount <= MaxMeasured
          /\ \E done \in {on_byte(measurer.self, amount, measurer.now)} :
                measurer' = [measurer EXCEPT
                    !.self = done.self,
                    !.published = IF done.published /\ @ < 2 THEN @ + 1 ELSE @,
                    !.returned = done.res # "NoReturn",
                    !.last = [op |-> "on_byte", res |-> done.res,
                              published |-> done.published]]
    /\ UNCHANGED <<counting_vars, counter, limiter, loopback, byte_rate>>

\* the caller calls reset()
MeasurerReset ==
    /\ measurer.returned
    /\ measurer.resets < MaxResets
    /\ measurer' = [measurer EXCEPT
           !.self = measurer_reset(@, measurer.now),
           !.resets = @ + 1,
           !.reset_at = Some(measurer.now),
           !.published = 0,
           !.last = [op |-> "reset", res |-> "Ok", published |-> FALSE]]
    /\ UNCHANGED <<counting_vars, counter, limiter, loopback, byte_rate>>

\* the caller calls restart()
MeasurerRestart ==
    /\ measurer.returned
    /\ measurer.last.op # "restart"
    /\ \E done \in {measurer_restart(measurer.self, measurer.now)} :
          measurer' = [measurer EXCEPT
              !.self = done.self,
              !.returned = done.res # "NoReturn",
              !.last = [op |-> "restart", res |-> done.res,
                        published |-> FALSE]]
    /\ UNCHANGED <<counting_vars, counter, limiter, loopback, byte_rate>>

\* time passes between two calls
MeasurerClockAdvance ==
    /\ measurer.returned
    /\ \E d \in 1..(MaxTime - measurer.now) :
          measurer' = [measurer EXCEPT
              !.now = @ + d,
              !.last = [op |-> "advance", res |-> "None",
                        published |-> FALSE]]
    /\ UNCHANGED <<counting_vars, counter, limiter, loopback, byte_rate>>

NextMeasurer ==
    \/ MeasurerOnByte
    \/ MeasurerReset
    \/ MeasurerRestart
    \/ MeasurerClockAdvance

SpecMeasurer == InitMeasurer /\ [][NextMeasurer]_vars

(***************************************************************************)

(* What the last call did, read off its log.                               *)
(***************************************************************************)
\* the last call ran recv_nb / send_nb (directly or inside loop_nb)
Received == call.recv_res # "None"

Sent == call.send_res # "None"

\* the answer of the serial to the read of the last call
ReadAnswer == call.log[2][2]

\* the byte offered to the serial by the last call, and the serial's answer
WrittenByte == call.log[Len(call.log)][2]

WriteAnswer == call.log[Len(call.log)][3]

(***************************************************************************)
(* C1: whenever recv_nb or send_nb of a loop_nb call returns a             *)
(* non-WouldBlock error, loop_nb returns an error, whatever the other side *)
(* returned.                                                               *)
(***************************************************************************)
C1_ErrorNeverHidden ==
    (call.op = "loop_nb"
        /\ (call.recv_res \in SerialErrors \/ call.send_res \in SerialErrors))
    => call.result \in SerialErrors

(***************************************************************************)
(* C2: when neither side of loop_nb fails with a non-WouldBlock error,     *)
(* loop_nb returns WouldBlock if both sides returned WouldBlock and Ok in  *)
(* the three other cases.                                                  *)
(***************************************************************************)
C2_LoopNbTruthTable ==
    (call.op = "loop_nb"
        /\ call.recv_res \in {"Ok", "WouldBlock"}
        /\ call.send_res \in {"Ok", "WouldBlock"})
    => call.result =
           (IF call.recv_res = "WouldBlock" /\ call.send_res = "WouldBlock"
            THEN "WouldBlock" ELSE "Ok")

\* a loop_nb whose receive was blocked and whose send went through
C2_Witness ==
    /\ call.op = "loop_nb"
    /\ call.recv_res = "WouldBlock"
    /\ call.send_res = "Ok"
    /\ call.result = "Ok"

(***************************************************************************)
(* C3: every loop_nb call that returns has called recv_nb once, which read *)
(* the serial once, and then send_nb once, which wrote to the serial once, *)
(* whatever the receive returned.                                          *)
(***************************************************************************)
C3_ReceiveThenSend ==
    (call.op = "loop_nb" /\ call.result # "Panic")
    => /\ Len(call.log) = 4
       /\ call.log[1] = <<"recv_nb">>
       /\ call.log[2][1] = "read"
       /\ call.log[3] = <<"send_nb">>
       /\ call.log[4][1] = "write"

\* a loop_nb whose receive failed and whose send was still attempted
C3_Witness ==
    /\ call.op = "loop_nb"
    /\ call.recv_res \in SerialErrors
    /\ Len(call.log) = 4
    /\ call.log[4][1] = "write"

(***************************************************************************)
(* C4, as claimed: when send_nb returns WouldBlock, the TX state and       *)
(* tx_stats are what they were before the call.                            *)
(***************************************************************************)
C4_WouldBlockLeavesTx ==
    [][(Sent' /\ call'.send_res = "WouldBlock")
        => (tx_state' = tx_state /\ tx_stats' = tx_stats)]_vars

(***************************************************************************)
(* C4, amended: when send_nb returns WouldBlock, tx_stats is unchanged and *)
(* the byte the next send_nb offers is the byte this call offered; the TX  *)
(* state is unchanged when bytes of the current packet were pending, and   *)
(* when none was pending the call has prepared the next packet: the        *)
(* counter has advanced by one and the number_size + 2 bytes of the        *)
(* packet of the former counter are pending.                               *)
(***************************************************************************)
C4_WouldBlockOnlyPrepares ==
    [][(Sent' /\ call'.send_res = "WouldBlock")
        => /\ tx_stats' = tx_stats
           /\ peek(tx_state', number_size) = WrittenByte'
           /\ serial'.written = serial.written
           /\ tx_state.data_to_send # << >> => tx_state' = tx_state
           /\ tx_state.data_to_send = << >> =>
                 /\ tx_state'.number_to_send
                        = pop(tx_state.number_to_send, number_size).self
                 /\ tx_state'.data_to_send
                        = into_packet(
                              to_le_bytes(
                                  pop(tx_state.number_to_send, number_size).out,
                                  number_size),
                              tx_state.checksum_enabled)
                 /\ Len(tx_state'.data_to_send) = number_size + 2
                 /\ tx_state'.checksum_enabled = tx_state.checksum_enabled]_vars

\* the first call was a send_nb that was blocked with no packet pending
C4_Witness ==
    /\ call.count = 1
    /\ call.op = "send_nb"
    /\ call.result = "WouldBlock"
    /\ Len(tx_state.data_to_send) = number_size + 2
    /\ tx_stats = new_statistics

(***************************************************************************)
(* C5: when the serial write of send_nb succeeds, the TX advances by       *)
(* exactly one byte and tx_stats successful grows by 1; when it fails with *)
(* a non-WouldBlock error, tx_stats failed grows by 1, that error is       *)
(* returned and the byte is not consumed: the next send_nb offers it       *)
(* again.                                                                  *)
(***************************************************************************)
C5_SendOutcomes ==
    [][Sent' =>
        /\ call'.send_res = "Ok" =>
              /\ WriteAnswer' = "Ok"
              /\ tx_state' = pop_data(peek_state(tx_state, number_size))
              /\ serial'.written
                     = Append(serial.written, peek(tx_state, number_size))
              /\ tx_stats'.successful = tx_stats.successful + 1
              /\ tx_stats'.failed = tx_stats.failed
        /\ call'.send_res \in SerialErrors =>
              /\ WriteAnswer' = call'.send_res
              /\ tx_stats'.failed = tx_stats.failed + 1
              /\ tx_stats'.successful = tx_stats.successful
              /\ serial'.written = serial.written
              /\ WrittenByte' = peek(tx_state, number_size)
              /\ peek(tx_state', number_size) = WrittenByte']_vars

\* a send failed, and a later send_nb got the first byte of the first packet out
C5_Witness ==
    /\ call.op = "send_nb"
    /\ call.result = "Ok"
    /\ tx_stats.failed = 1
    /\ tx_stats.successful = 1
    /\ serial.written = <<1>>
    /\ Len(tx_state.data_to_send) = number_size + 1

(***************************************************************************)
(* C6: when the serial read of recv_nb succeeds, exactly the byte read is  *)
(* fed to the RX state machine and rx_stats successful grows by 1; on      *)
(* WouldBlock the RX state (loss_stats included) and rx_stats are          *)
(* unchanged; on another error rx_stats failed grows by 1, the error is    *)
(* returned and the RX state (loss_stats included) is unchanged.           *)
(***************************************************************************)
C6_RecvOutcomes ==
    [][Received' =>
        /\ call'.recv_res = "Ok" =>
              /\ ReadAnswer'[1] = "Ok"
              /\ rx_state' = on_byte_received(rx_state, ReadAnswer'[2], number_size)
              /\ rx_stats'.successful = rx_stats.successful + 1
              /\ rx_stats'.failed = rx_stats.failed
        /\ call'.recv_res = "WouldBlock" =>
              /\ rx_state' = rx_state
              /\ rx_stats' = rx_stats
        /\ call'.recv_res \in SerialErrors =>
              /\ ReadAnswer' = <<call'.recv_res>>
              /\ rx_stats'.failed = rx_stats.failed + 1
              /\ rx_stats'.successful = rx_stats.successful
              /\ rx_state' = rx_state]_vars

\* three recv_nb calls read a whole packet of the counter 0x01, which was counted
C6_Witness ==
    /\ call.op = "recv_nb"
    /\ call.result = "Ok"
    /\ rx_stats.successful = 3
    /\ rx_state.number = Some(1)
    /\ rx_state.loss_stats.successful = 1
    /\ rx_state.current_packet = << >>

(***************************************************************************)
(* C7: once a fresh RX has consumed the whole stream of k >= 1 consecutive *)
(* packets of a TX of the same width and checksum mode, none removed,      *)
(* loss_stats.successful = k and loss_stats.failed = 0; the chain may wrap *)
(* from max to min.                                                        *)
(***************************************************************************)
C7_NoDropNoLoss ==
    (LinkDrained /\ link.packets >= 1 /\ link.dropped = 0)
    => /\ call.result # "Panic"
       /\ rx_state.loss_stats.successful = link.packets
       /\ rx_state.loss_stats.failed = 0

\* the u8 packets of 0xFD, 0xFE, 0xFF and 0x01 were consumed: the chain wrapped
C7_Witness ==
    /\ LinkDrained
    /\ number_size = 1
    /\ link.first = 253
    /\ link.packets = 4
    /\ link.dropped = 0
    /\ rx_state.number = Some(1)
    /\ rx_state.loss_stats.successful = 4

(***************************************************************************)
(* C8: once the RX has consumed what is left of a stream of k consecutive  *)
(* packets (k <= 255^N) after m whole packets were removed strictly        *)
(* between the first and the last, loss_stats.failed = m and               *)
(* loss_stats.successful = k - m.                                          *)
(***************************************************************************)
C8_DroppedPacketsCounted ==
    (/\ LinkDrained
     /\ link.packets >= 1
     /\ link.last_kept
     /\ link.packets <= max_normalized(number_size) + 1)
    => /\ call.result # "Panic"
       /\ rx_state.loss_stats.failed = link.dropped
       /\ rx_state.loss_stats.successful = link.packets - link.dropped

\* of the five u8 packets 0xFD, 0xFE, 0xFF, 0x01, 0x02 two were removed
C8_Witness ==
    /\ LinkDrained
    /\ link.last_kept
    /\ number_size = 1
    /\ link.first = 253
    /\ link.packets = 5
    /\ link.dropped = 2
    /\ rx_state.number = Some(2)
    /\ rx_state.loss_stats.failed = 2

(***************************************************************************)
(* C9, as claimed: once a fresh u16 RX with checksum has consumed the      *)
(* packets of the counters 0x0101, 0x0301 and 0x0401,                      *)
(* loss_stats.successful = 3 and loss_stats.failed = 1.                    *)
(***************************************************************************)
S4Stream ==
    PacketOf(257, 2, TRUE) \o PacketOf(769, 2, TRUE) \o PacketOf(1025, 2, TRUE)

C9_OneLoss ==
    link.fed = S4Stream
    => /\ rx_state.loss_stats.successful = 3
       /\ rx_state.loss_stats.failed = 1

(***************************************************************************)
(* C9, amended: once a fresh u16 RX with checksum has consumed the packets *)
(* of the counters 0x0101, 0x0301 and 0x0401, loss_stats.successful = 3    *)
(* and loss_stats.failed = 763: the high byte weighs 255, so the distances *)
(* are 510 and 255.                                                        *)
(***************************************************************************)
C9_HighByteLoss ==
    link.fed = S4Stream
    => /\ call.result # "Panic"
       /\ rx_state.number = Some(1025)
       /\ rx_state.loss_stats.successful = 3
       /\ rx_state.loss_stats.failed = 763

\* the three packets were consumed
C9_Witness ==
    /\ link.fed = S4Stream
    /\ serial.to_read = << >>
    /\ rx_state.loss_stats.successful = 3

(***************************************************************************)
(* C10: a fresh u16 RX with checksum that consumes 0xAA 0xBB 0xCC 0x00     *)
(* CRC_bad 0x01 0x02 0x00 CRC_ok records no packet for the first framing   *)
(* and is left with an empty buffer in phase Receiving; the second framing *)
(* is decoded as the counter of bytes [0x01, 0x02], and at the end         *)
(* loss_stats.successful = 1 and loss_stats.failed = 0.                    *)
(***************************************************************************)
S6Garbage == <<170, 187, 204, 0>>

C10_DesyncRecovery ==
    \A x \in FeedBadCrc :
        /\ link.fed = S6Garbage \o <<x>>
           => /\ rx_state.current_packet = << >>
              /\ rx_state.internal_state = "Receiving"
              /\ rx_state.number = None
              /\ rx_state.loss_stats = new_statistics
        /\ link.fed = S6Garbage \o <<x, 1, 2, 0, Crc8Autosar(<<1, 2>>)>>
           => /\ call.result # "Panic"
              /\ rx_state.number = Some(from_le_bytes(<<1, 2>>))
              /\ rx_state.current_packet = << >>
              /\ rx_state.internal_state = "Receiving"
              /\ rx_state.loss_stats.successful = 1
              /\ rx_state.loss_stats.failed = 0

\* the nine bytes were consumed, the byte after the garbage being its CRC
C10_Witness ==
    /\ link.fed = S6Garbage \o <<207, 1, 2, 0, 240>>
    /\ serial.to_read = << >>
    /\ rx_state.number = Some(513)

(***************************************************************************)
(* C11: every packet the TX emits is exactly N+2 bytes in the wire order   *)
(* [N counter bytes little-endian][0x00][CRC byte]; each counter byte is   *)
(* in 0x01..0xFF and the byte at offset N is 0x00, so the sentinel is the  *)
(* only zero among the first N+1 bytes.  This holds for every packet of    *)
(* the stream, the first being the packet of min, in both checksum modes.  *)
(***************************************************************************)
\* the normalization index of the counter the TX stood at when the link
\* was set up (a TX just constructed starts at min)
WireBase ==
    IF IsSome(normalize(link.first, number_size))
    THEN Unwrap(normalize(link.first, number_size)) ELSE 0

\* the position in the stream of the packet link.wire belongs to
WireIndex ==
    IF tx_state.data_to_send = << >> THEN link.packets - 1 ELSE link.packets

C11_PacketLayout ==
    /\ Len(link.wire) + Len(tx_state.data_to_send) \in {0, number_size + 2}
    /\ \A i \in 1..Len(link.wire) :
          /\ i <= number_size => link.wire[i] \in 1..255
          /\ i = number_size + 1 => link.wire[i] = 0
          /\ (i = number_size + 2 /\ tx_state.checksum_enabled) =>
                 link.wire[i] = Crc8Autosar(SubSeq(link.wire, 1, number_size))
    /\ Len(link.wire) >= number_size =>
          normalize_bytes(SubSeq(link.wire, 1, number_size))
              = Some((WireBase + WireIndex) % Pow(255, number_size))
    /\ (link.first = 0 /\ WireIndex = 0) =>
          \A i \in 1..Len(link.wire) : i <= number_size => link.wire[i] = 1

\* the TX has completed its first packet and at least two more, in u16,
\* and the last one is whole on the wire
C11_Witness ==
    /\ number_size = 2
    /\ link.first = 0
    /\ link.packets >= 3
    /\ tx_state.data_to_send = << >>
    /\ Len(link.wire) = 4
    /\ link.wire[1] = 3 /\ link.wire[2] = 1 /\ link.wire[3] = 0

(***************************************************************************)
(* C12: encoding then decoding is the identity.  For every valid counter   *)
(* c, decoding the N counter bytes of the packet of c returns c, with      *)
(* checksum enabled (the CRC byte of the packet is passed) and with        *)
(* checksum disabled (no CRC is passed, whatever the CRC byte of the       *)
(* packet is); decoding returns nothing when the number of counter bytes   *)
(* differs from N.                                                         *)
(***************************************************************************)
\* the counter has all its bytes in 0x01..0xFF
ValidCounter(c, sz) == \A i \in 0..(sz - 1) : (c \div Pow(256, i)) % 256 # 0

C12_RoundTrip ==
    (counter.obs.op = "decode" /\ ValidCounter(counter.obs.arg[1], number_size))
    => /\ counter.obs.arg[3] # number_size => counter.obs.out = None
       /\ (counter.obs.arg[3] = number_size /\ counter.obs.arg[2]
              /\ counter.obs.arg[4])
          => counter.obs.out = Some(counter.obs.arg[1])
       /\ (counter.obs.arg[3] = number_size /\ ~counter.obs.arg[4])
          => counter.obs.out = Some(counter.obs.arg[1])

\* the u16 counter 0x0102 was encoded with its CRC and decoded with it
C12_Witness ==
    /\ number_size = 2
    /\ counter.obs.op = "decode"
    /\ counter.obs.arg = <<258, TRUE, 2, TRUE>>
    /\ counter.obs.out = Some(258)

(***************************************************************************)
(* C13: for width N=2 with checksum enabled, the counter next(min), the    *)
(* counter of the second packet a fresh TX emits, is 0x0201 and its packet *)
(* is [0x01, 0x02, 0x00, CRC8_AUTOSAR([0x01, 0x02])].                      *)
(***************************************************************************)
\* the second packet of a TX just constructed, u16 with checksum, is whole
\* on the wire
SecondPacketSent ==
    /\ number_size = 2
    /\ tx_state.checksum_enabled
    /\ link.first = 0
    /\ link.packets = 2
    /\ tx_state.data_to_send = << >>

\* the statement as claimed
C13_SecondPacketHighByte ==
    SecondPacketSent =>
        /\ from_le_bytes(SubSeq(link.wire, 1, 2)) = 513
        /\ link.wire = <<1, 2, 0, Crc8Autosar(<<1, 2>>)>>

\* C13 as the code has it: next(min) is 0x0102, the low byte counts first,
\* and its packet is [0x02, 0x01, 0x00, CRC8_AUTOSAR([0x02, 0x01])]
C13_SecondPacketLowByte ==
    SecondPacketSent =>
        /\ from_le_bytes(SubSeq(link.wire, 1, 2)) = 258
        /\ link.wire = <<2, 1, 0, Crc8Autosar(<<2, 1>>)>>

C13_Witness ==
    /\ SecondPacketSent
    /\ Len(link.wire) = 4
    /\ link.wire[1] = 2

(***************************************************************************)
(* C14: for every valid counter c, prev(next(c)) = c and next(prev(c)) =   *)
(* c, where next is the increment done by pop and prev the decrement done  *)
(* by push; this includes c = max and c = min.                             *)
(***************************************************************************)
C14_PushPopInverse ==
    (ValidCounter(counter.start, number_size)
        /\ counter.ops \in {<<"pop", "push">>, <<"push", "pop">>})
    => counter.self = counter.start

\* max was incremented and decremented, or min decremented and incremented
C14_Witness ==
    /\ number_size = 2
    /\ \/ counter.start = max_counter(2) /\ counter.ops = <<"pop", "push">>
       \/ counter.start = min_counter(2) /\ counter.ops = <<"push", "pop">>
    /\ counter.self = counter.start

(***************************************************************************)
(* C15: for every valid counter c, distance(c, next(c)) = 1, including     *)
(* c = max where next(c) = min; and the distance in the other direction,   *)
(* distance(next(c), c), is 255^N - 1.                                     *)
(***************************************************************************)
\* the last call was pop, and distance was then evaluated
DistanceAfterPop ==
    /\ counter.ops # << >>
    /\ counter.ops[Len(counter.ops)] = "pop"
    /\ counter.obs.op = "distance"

C15_DistanceToNext ==
    DistanceAfterPop =>
        /\ counter.obs.arg = <<Unwrap(counter.out), counter.self>>
              => counter.obs.out = 1
        /\ counter.obs.arg = <<counter.self, Unwrap(counter.out)>>
              => counter.obs.out = Pow(255, number_size) - 1

\* max was incremented to min, and the distance was taken either way
C15_Witness ==
    /\ DistanceAfterPop
    /\ number_size = 2
    /\ Unwrap(counter.out) = max_counter(2)
    /\ counter.self = min_counter(2)
    /\ \/ counter.obs.arg = <<max_counter(2), min_counter(2)>>
          /\ counter.obs.out = 1
       \/ counter.obs.arg = <<min_counter(2), max_counter(2)>>
          /\ counter.obs.out = 65024

(***************************************************************************)
(* C16: for all valid counters a and b, distance(a, b) =                   *)
(* (k(b) - k(a)) mod 255^N, where k(c) is the sum over i of                *)
(* (byte_i - 1) * 255^i; in particular distance(a, a) = 0 and              *)
(* distance(min, max) = 255^N - 1.                                         *)
(***************************************************************************)
RECURSIVE NormalizationIndex(_, _)
\* k(c) for a counter of sz bytes, byte_0 being the lowest byte of c
NormalizationIndex(c, sz) ==
    IF sz = 0 THEN 0
    ELSE ((c % 256) - 1) + 255 * NormalizationIndex(c \div 256, sz - 1)

\* distance was evaluated on two valid counters
DistanceOfValid ==
    /\ counter.obs.op = "distance"
    /\ ValidCounter(counter.obs.arg[1], number_size)
    /\ ValidCounter(counter.obs.arg[2], number_size)

C17_FullCycle ==
    /\ ValidCounter(counter.self, number_size)
    /\ (counter.steps > 0 /\ counter.self = counter.start)
          => counter.steps = Pow(255, number_size)
    /\ counter.steps = Pow(255, number_size)
          => counter.self = counter.start

\* the u8 walk from 0x01 is back at 0x01 after 255 steps
C17_Witness ==
    /\ number_size = 1
    /\ counter.start = min_counter(1)
    /\ counter.steps = 255
    /\ counter.self = counter.start

(***************************************************************************)
(* C18: for a limiter with byte budget B >= 1 and non-zero interval,       *)
(* starting fresh and with no clock advance: the first B-1 send() calls    *)
(* return true with can_send() true after each, the B-th send() returns    *)
(* false, and after it can_send() is false and every further send()        *)
(* returns false; once a full interval has elapsed since the first send,   *)
(* can_send() is true again and, when B > 1, the next send() returns true. *)
(***************************************************************************)
\* the limiter has a budget and an interval, and send() was called
LimitedAndUsed ==
    /\ limiter.rate_limit.max_rate.bytes >= 1
    /\ limiter.rate_limit.max_rate.interval >= 1
    /\ limiter.sends # << >>

\* the first k send() calls were made at the same instant
SameInstant(k) == \A j \in 1..k : limiter.sends[j][1] = limiter.sends[1][1]

\* a full interval has elapsed at instant t since the first send()
IntervalElapsed(t) ==
    t >= limiter.sends[1][1] + limiter.rate_limit.max_rate.interval

C18_BudgetThenRefill ==
    LimitedAndUsed =>
        /\ \A k \in 1..Len(limiter.sends) :
              SameInstant(k) =>
                  limiter.sends[k][2] =
                      IF k < limiter.rate_limit.max_rate.bytes
                      THEN "Ok(true)" ELSE "Ok(false)"
        /\ (SameInstant(Len(limiter.sends))
              /\ limiter.now = limiter.sends[1][1])
           => can_send(limiter.rate_limit, limiter.now)
                  = (Len(limiter.sends) < limiter.rate_limit.max_rate.bytes)
        /\ (SameInstant(Len(limiter.sends)) /\ IntervalElapsed(limiter.now))
           => can_send(limiter.rate_limit, limiter.now)
        /\ \A k \in 2..Len(limiter.sends) :
              (SameInstant(k - 1) /\ IntervalElapsed(limiter.sends[k][1])
                  /\ limiter.rate_limit.max_rate.bytes > 1)
              => limiter.sends[k][2] = "Ok(true)"

(***************************************************************************)
(* C19: for any sequence of send() calls and clock advances on a limiter   *)
(* with budget B and non-zero interval I, the number of send() calls that  *)
(* return true within any time window of length I is at most B.            *)
(***************************************************************************)
\* the send() calls that returned true in the window of length I that
\* starts at instant t
TrueSendsFrom(t) ==
    {j \in 1..Len(limiter.sends) :
        /\ limiter.sends[j][2] = "Ok(true)"
        /\ limiter.sends[j][1] >= t
        /\ limiter.sends[j][1] < t + limiter.rate_limit.max_rate.interval}

C19_AtMostBudgetPerWindow ==
    limiter.rate_limit.max_rate.interval >= 1 =>
        \A t \in 0..MaxTime :
            Cardinality(TrueSendsFrom(t)) <= limiter.rate_limit.max_rate.bytes

(***************************************************************************)
(* C20: ByteRateSerialLimiter::write never calls the underlying serial     *)
(* write when the limiter's can_send() is false: it returns WouldBlock and *)
(* leaves the serial and the limiter untouched; reads are never gated by   *)
(* the limiter.                                                            *)
(***************************************************************************)
\* the step is a call of write, of read
WriteCalled == limiter' # limiter /\ limiter'.last.op = "write"

ReadCalled == limiter' # limiter /\ limiter'.last.op = "read"

C20_BlockedWriteSkipsSerial ==
    [][/\ (WriteCalled /\ ~can_send(limiter.rate_limit, limiter.now))
          => /\ limiter'.last.res = "WouldBlock"
             /\ limiter'.serial = limiter.serial
             /\ limiter'.rate_limit = limiter.rate_limit
       /\ ReadCalled
          => /\ limiter'.serial.reads = limiter.serial.reads + 1
             /\ limiter'.serial.writes = limiter.serial.writes
             /\ <<limiter'.last.res>> \o limiter'.last.word
                    = limiter'.serial.last[2]
             /\ limiter'.rate_limit = limiter.rate_limit]_vars

\* a write was refused by a limiter that had let writes through before
\* and had seen a read answered since its budget was used up
C20_Witness ==
    /\ limiter.rate_limit.state = "Limiting"
    /\ limiter.rate_limit.max_rate.bytes >= 1
    /\ ~can_send(limiter.rate_limit, limiter.now)
    /\ limiter.serial.writes >= 1
    /\ limiter.serial.reads >= 1
    /\ limiter.serial.last[1] = "read"
    /\ limiter.last.op = "write"
    /\ limiter.last.res = "WouldBlock"

\* the bytes a limited limiter lets through at instant now before it
\* blocks: the whole budget when a window is about to open, what remains of
\* the running window otherwise
BudgetAvailable(l, now) ==
    IF l.state = "Idle" THEN l.max_rate.bytes
    ELSE IF timer_expired(l, now) THEN l.max_rate.bytes
    ELSE IF l.state = "Running" THEN l.remaining
    ELSE 0

\* the bytes left in the window of a limiter right after a call
BudgetLeft(l) == IF l.state = "Running" THEN l.remaining ELSE 0

\* the last write reached the serial, which answered outcome
SerialAnswered(outcome) ==
    /\ WriteCalled
    /\ limiter'.serial.writes = limiter.serial.writes + 1
    /\ limiter'.serial.last[3] = outcome

(***************************************************************************)
(* C21: write takes one byte from the budget of the limiter exactly when   *)
(* the serial write succeeded: a write that returns Ok leaves one byte     *)
(* less than the limiter had to give (an unlimited limiter stays as it     *)
(* is); when the serial answers WouldBlock or an error, write returns that *)
(* answer and the limiter is as it was before the call.                    *)
(***************************************************************************)
C21_BudgetTakenIffWritten ==
    [][/\ (SerialAnswered("Ok") /\ limiter'.last.res = "Ok")
          => IF limiter.rate_limit.state = "Unlimited"
             THEN limiter'.rate_limit = limiter.rate_limit
             ELSE /\ BudgetLeft(limiter'.rate_limit)
                        = BudgetAvailable(limiter.rate_limit, limiter.now) - 1
                  /\ limiter'.rate_limit.state \in {"Running", "Limiting"}
       /\ \A outcome \in WriteOutcomes \ {"Ok"} :
             SerialAnswered(outcome)
                 => /\ limiter'.last.res = outcome
                    /\ limiter'.rate_limit = limiter.rate_limit]_vars

\* two writes reached the serial within one window of two bytes: the first
\* was written and took a byte, the second got an error and took none
C21_Witness ==
    /\ limiter.now = 0
    /\ limiter.rate_limit.max_rate = new_byte_rate(2, 2)
    /\ limiter.serial.writes = 2
    /\ limiter.serial.reads = 0
    /\ limiter.serial.last[3] = "Overrun"
    /\ limiter.last.op = "write"
    /\ limiter.last.res = "Overrun"
    /\ limiter.rate_limit.state = "Running"
    /\ limiter.rate_limit.remaining = 1

\* restart() was never called on the limiter
NeverRestarted == limiter.restarts = 0 /\ limiter.last.op # "restart"

\* the last call was op and it answered res
Answered(op, res) == limiter.last.op = op => limiter.last.res = res

(***************************************************************************)
(* C22: a limiter with an interval of zero is unlimited: after any         *)
(* sequence of send() and can_send() calls and clock advances it is in     *)
(* state Unlimited, can_send() is true, send() returns Ok(true) and        *)
(* duration_until_reset() is None.                                         *)
(***************************************************************************)
C22_ZeroIntervalUnlimited ==
    (limiter.rate_limit.max_rate.interval = 0 /\ NeverRestarted)
    => /\ limiter.rate_limit.state = "Unlimited"
       /\ can_send(limiter.rate_limit, limiter.now)
       /\ send(limiter.rate_limit, limiter.now).res = "Ok(true)"
       /\ duration_until_reset(limiter.rate_limit, limiter.now) = {None}
       /\ Answered("can_send", "true")
       /\ Answered("send", "Ok(true)")
       /\ Answered("duration_until_reset", "None")
       /\ \A k \in 1..Len(limiter.since_restart) :
             limiter.since_restart[k][1] = "Ok(true)"

\* an unlimited limiter with a budget of zero bytes was asked to send
\* three times and, later, how long until its reset
C22_Witness ==
    /\ limiter.rate_limit.max_rate = new_byte_rate(0, 0)
    /\ NeverRestarted
    /\ Len(limiter.since_restart) = 3
    /\ limiter.now >= 2
    /\ limiter.last.op = "duration_until_reset"
    /\ limiter.last.res = "None"

(***************************************************************************)
(* C23: a limiter with a budget of zero bytes and a non-zero interval is   *)
(* always blocked: in every state reached by send() and can_send() calls   *)
(* and clock advances, however much time passes, can_send() is false and   *)
(* send() returns Ok(false).                                               *)
(***************************************************************************)
C23_ZeroBudgetBlocked ==
    (/\ limiter.rate_limit.max_rate.bytes = 0
     /\ limiter.rate_limit.max_rate.interval >= 1
     /\ NeverRestarted)
    => /\ ~can_send(limiter.rate_limit, limiter.now)
       /\ send(limiter.rate_limit, limiter.now).res = "Ok(false)"
       /\ Answered("can_send", "false")
       /\ Answered("send", "Ok(false)")
       /\ \A k \in 1..Len(limiter.since_restart) :
             limiter.since_restart[k][1] = "Ok(false)"

\* a limiter with no budget was asked to send before and after more than
\* an interval went by, and then whether it can send
C23_Witness ==
    /\ limiter.rate_limit.max_rate = new_byte_rate(0, 2)
    /\ NeverRestarted
    /\ Len(limiter.since_restart) = 2
    /\ limiter.now >= 3
    /\ limiter.last.op = "can_send"
    /\ limiter.last.res = "false"

\* the limiter has a budget and an interval, and restart() returned Ok
RestartedWithBudget ==
    /\ limiter.rate_limit.max_rate.bytes >= 1
    /\ limiter.rate_limit.max_rate.interval >= 1
    /\ limiter.restarts >= 1

\* the timer was not expired at any of the first k send() calls made since
\* the last restart()
NoExpirySince(k) == \A j \in 1..k : ~limiter.since_restart[j][2]

(***************************************************************************)
(* C24: restart() on a limiter with a budget of B >= 1 bytes and a         *)
(* non-zero interval gives back the whole budget, whatever was sent        *)
(* before: right after restart() can_send() is true, and as long as the    *)
(* window does not expire the next B-1 send() calls return true and the    *)
(* B-th returns false.                                                     *)
(***************************************************************************)
C24_RestartRefills ==
    RestartedWithBudget =>
        /\ (limiter.last.op = "restart" /\ limiter.last.res = "Ok")
           => /\ can_send(limiter.rate_limit, limiter.now)
              /\ limiter.rate_limit.state = "Running"
              /\ limiter.rate_limit.remaining
                     = limiter.rate_limit.max_rate.bytes
        /\ \A k \in 1..Len(limiter.since_restart) :
              (NoExpirySince(k) /\ k <= limiter.rate_limit.max_rate.bytes)
              => limiter.since_restart[k][1] =
                     IF k < limiter.rate_limit.max_rate.bytes
                     THEN "Ok(true)" ELSE "Ok(false)"

\* a limiter of two bytes per two ticks that had started its window by a
\* send() was restarted at the same instant, and then sent twice
C24_Witness ==
    /\ limiter.rate_limit.max_rate = new_byte_rate(2, 2)
    /\ limiter.restarts = 1
    /\ limiter.now = 0
    /\ limiter.rate_limit.timer = Some([expiration_time |-> 2])
    /\ limiter.since_restart
           = << <<"Ok(true)", FALSE>>, <<"Ok(false)", FALSE>> >>

\* the step is a call on a limiter with an interval that opens a window:
\* restart() returning Ok, or send() finding its timer expired and
\* restarting it
WindowOpened ==
    /\ limiter' # limiter
    /\ limiter.rate_limit.max_rate.interval >= 1
    /\ \/ limiter'.last.op = "restart" /\ limiter'.last.res = "Ok"
       \/ /\ limiter'.last.op = "send"
          /\ limiter'.last.res # "Err(Overflow)"
          /\ timer_expired(limiter.rate_limit, limiter.now)
          /\ \/ limiter.rate_limit.state = "Running"
             \/ /\ limiter.rate_limit.state = "Limiting"
                /\ limiter.rate_limit.max_rate.bytes >= 1

\* the deadline to is the deadline from moved by a whole number of
\* intervals
WholeIntervals(from, to) ==
    \E k \in 0..(MaxTime + 1) :
        to = from + k * limiter.rate_limit.max_rate.interval

(***************************************************************************)
(* C25: whenever the limiter opens a new window (by send() on an expired   *)
(* timer or by restart()), the new deadline is the previous deadline plus  *)
(* a whole non-negative number of intervals and is strictly later than the *)
(* current instant, so that the window is never longer than one interval.  *)
(***************************************************************************)
C25_DeadlineStrictlyLater ==
    [][WindowOpened =>
          /\ WholeIntervals(limiter.rate_limit.timer_end_time,
                            limiter'.rate_limit.timer_end_time)
          /\ limiter'.rate_limit.timer_end_time > limiter.now
          /\ Unwrap(limiter'.rate_limit.timer).expiration_time
                 = limiter'.rate_limit.timer_end_time
          /\ limiter'.rate_limit.timer_end_time - limiter.now
                 <= limiter.rate_limit.max_rate.interval]_vars

\* the step is a call of send() or restart() that returned
\* TimerError::Overflow
OverflowReturned ==
    /\ limiter' # limiter
    /\ limiter'.last.op \in {"send", "restart"}
    /\ limiter'.last.res = "Err(Overflow)"

(***************************************************************************)
(* C26: when send() or restart() returns TimerError::Overflow, the budget  *)
(* state (Idle, Running(remaining), Limiting or Unlimited) is what it was  *)
(* before the call: no send is counted and no budget is refilled.          *)
(***************************************************************************)
C26_OverflowKeepsBudget ==
    [][OverflowReturned =>
          /\ limiter'.rate_limit.state = limiter.rate_limit.state
          /\ limiter'.rate_limit.remaining = limiter.rate_limit.remaining
          /\ limiter'.rate_limit.max_rate = limiter.rate_limit.max_rate]_vars

\* send() on a limiter whose budget was used up found the timer expired and
\* failed to restart it: the limiter is still Limiting, with its deadline
\* moved by the part of the way that did not overflow
C26_Witness ==
    /\ limiter.last.op = "send"
    /\ limiter.last.res = "Err(Overflow)"
    /\ limiter.rate_limit.state = "Limiting"
    /\ limiter.rate_limit.max_rate = new_byte_rate(1, 3)
    /\ limiter.rate_limit.timer = Some([expiration_time |-> 3])
    /\ limiter.rate_limit.timer_end_time = 6
    /\ limiter.now = MaxTime

\* what a call of write may end with: Ok, WouldBlock, an error of the
\* serial or the timer error of the limiter
WriteResults == WriteOutcomes \cup {"Err(Overflow)"}

(***************************************************************************)
(* C27: timer errors of the limiter propagate as values: every call of     *)
(* ByteRateSerialLimiter::write ends with Ok, WouldBlock or an error       *)
(* value, also when send() of the limiter fails with a timer error after   *)
(* the serial has written the byte; the call never aborts.                 *)
(***************************************************************************)
C27_WriteNeverAborts ==
    limiter.last.op = "write" => limiter.last.res \in WriteResults

\* the step is a call of reset
ResetCalled == call'.op = "reset" /\ call'.resets = call.resets + 1

(***************************************************************************)
(* C28: after Counting::reset(), from any state, the orchestrator is like  *)
(* one just constructed with the same checksum mode: the next byte sent is *)
(* the first byte of the packet of min (a packet partly sent is dropped),  *)
(* the RX is Receiving with an empty buffer and no last counter, so that   *)
(* the first packet decoded after the reset counts one successful and no   *)
(* failed, and tx_stats, rx_stats and loss_stats are reset.                *)
(***************************************************************************)
C28_ResetLikeFresh ==
    [][/\ ResetCalled
          => /\ tx_state' = new_tx_state(tx_state.checksum_enabled)
             /\ rx_state' = new_rx_state(rx_state.checksum_enabled)
             /\ tx_stats' = new_statistics
             /\ rx_stats' = new_statistics
             /\ peek(tx_state', number_size)
                    = to_le_bytes(min_counter(number_size), number_size)[1]
       /\ (call'.resets >= 1 /\ rx_state'.loss_stats.successful = 1)
          => rx_state'.loss_stats.failed = 0]_vars

\* reset was called once, after a packet was received and while the first
\* packet was being sent: the second packet of the stream, not the
\* successor of the first, counted one successful and no failed, and the
\* byte sent after the reset is again the first byte of the packet of min
C28_Witness ==
    /\ number_size = 2
    /\ call.resets = 1
    /\ serial.to_read = << >>
    /\ rx_state.loss_stats = [successful |-> 1, failed |-> 0]
    /\ rx_state.number = Some(pop(1025, 2).out)
    /\ rx_stats.successful = 4
    /\ serial.written = <<1, 1>>
    /\ tx_stats.successful = 1

\* the step delivers a non-zero byte to an RX in phase Receiving whose
\* buffer holds size bytes
ByteOnBufferOf(size) ==
    /\ link'.bytes = link.bytes + 1
    /\ link'.byte # 0
    /\ call'.result # "Panic"
    /\ rx_state.internal_state = "Receiving"
    /\ Len(rx_state.current_packet) = size

(***************************************************************************)
(* C29, as claimed: in every reachable RX state the receive buffer holds   *)
(* at most N bytes (N = the counter width): when a non-zero byte arrives   *)
(* in phase Receiving while the buffer already holds N bytes, the buffer   *)
(* is cleared before the byte is appended.                                 *)
(***************************************************************************)
C29_BufferAtMostWidth ==
    [][/\ Len(rx_state'.current_packet) <= number_size
       /\ ByteOnBufferOf(number_size)
          => rx_state'.current_packet = <<link'.byte>>]_vars

(***************************************************************************)
(* C29, amended: in every reachable RX state the receive buffer holds at   *)
(* most MAX_PACKET_SIZE (10) bytes, whatever the counter width: when a     *)
(* non-zero byte arrives in phase Receiving while the buffer already holds *)
(* MAX_PACKET_SIZE bytes, the buffer is cleared before the byte is         *)
(* appended.                                                               *)
(***************************************************************************)
C29_BufferAtMostPacketSize ==
    [][/\ Len(rx_state'.current_packet) <= MAX_PACKET_SIZE
       /\ ByteOnBufferOf(MAX_PACKET_SIZE)
          => rx_state'.current_packet = <<link'.byte>>]_vars

\* eleven non-zero bytes arrived in a row at an RX for u8 counters: the
\* buffer was cleared on the eleventh and holds it alone
C29_Witness ==
    /\ number_size = 1
    /\ link.bytes = MAX_PACKET_SIZE + 1
    /\ link.byte = 146
    /\ rx_state.current_packet = <<146>>
    /\ rx_state.internal_state = "Receiving"
    /\ rx_state.loss_stats = new_statistics

\* the step is a recv_nb (alone or inside loop_nb) whose read delivered a
\* byte to an RX in phase WaitingForCRC
CrcByteRead ==
    /\ call'.count = call.count + 1
    /\ call'.recv_res # "None"
    /\ call'.log[2][2][1] = "Ok"
    /\ rx_state.internal_state = "WaitingForCRC"

\* the buffer of the RX with the byte just read as CRC field is no packet
DecodingFails ==
    ~IsSome(from_slice_checked(rx_state.current_packet,
                               checksum_arg(rx_state, call'.log[2][2][2]),
                               number_size))

(***************************************************************************)
(* C30: the byte consumed in phase WaitingForCRC, whatever its value,      *)
(* 0x00 included, ends the framing: afterwards the buffer is empty and the *)
(* phase is Receiving; when decoding fails (wrong length, or bad CRC with  *)
(* the checksum enabled) the last number and loss_stats are unchanged and  *)
(* recv_nb returns Ok, reporting nothing to its caller.                    *)
(***************************************************************************)
C30_CrcByteEndsFraming ==
    [][CrcByteRead =>
          /\ call'.recv_res # "Panic"
             => /\ rx_state'.current_packet = << >>
                /\ rx_state'.internal_state = "Receiving"
          /\ DecodingFails
             => /\ rx_state'.number = rx_state.number
                /\ rx_state'.loss_stats = rx_state.loss_stats
                /\ call'.recv_res = "Ok"
                /\ rx_state'.current_packet = << >>
                /\ rx_state'.internal_state = "Receiving"]_vars

\* an RX for u8 counters with the checksum enabled got a counter byte, the
\* terminator and 0x00 as CRC: nothing was decoded, the framing is over
\* and recv_nb returned Ok
C30_Witness ==
    /\ number_size = 1
    /\ rx_state.checksum_enabled
    /\ call.count = 3
    /\ call.op = "recv_nb"
    /\ call.recv_res = "Ok"
    /\ ReadAnswer = <<"Ok", 0>>
    /\ rx_stats = [successful |-> 3, failed |-> 0]
    /\ rx_state.internal_state = "Receiving"
    /\ rx_state.current_packet = << >>
    /\ rx_state.number = None
    /\ rx_state.loss_stats = new_statistics

(***************************************************************************)
(* Loopback claims.                                                        *)
(***************************************************************************)
\* the last Loopback call asked the serial to read / to write
LoopbackRead ==
    loopback.last.calls # << >> /\ loopback.last.calls[1].fn = "read"

LoopbackWrote ==
    loopback.last.calls # << >> /\ loopback.last.calls[1].fn = "write"

\* the statistics of the Loopback grew by these amounts in the last call
LoopbackCounted(rx_ok, rx_failed, tx_ok, tx_failed) ==
    /\ loopback.self.rx_stats.successful
           = loopback.before.rx_stats.successful + rx_ok
    /\ loopback.self.rx_stats.failed
           = loopback.before.rx_stats.failed + rx_failed
    /\ loopback.self.tx_stats.successful
           = loopback.before.tx_stats.successful + tx_ok
    /\ loopback.self.tx_stats.failed
           = loopback.before.tx_stats.failed + tx_failed

\* C31: a successful recv_nb holds the byte read, adds 1 to rx_stats
\* successful and adds 1 to tx_stats failed exactly when a byte was already
\* held; send_nb with a held byte writes that byte and on success returns to
\* Receiving and adds 1 to tx_stats successful; send_nb with no held byte
\* returns WouldBlock without calling the serial; a WouldBlock from the
\* serial changes neither state nor statistics.
C31_LoopbackTransitions ==
    /\ (LoopbackRead /\ loopback.last.res = "Ok")
          => /\ loopback.self.state
                    = State_Transfer(loopback.last.calls[1].byte)
             /\ LoopbackCounted(1, 0, 0,
                    IF loopback.before.state.tag = "Transfer" THEN 1 ELSE 0)
    /\ (loopback.last.op = "send_nb"
            /\ loopback.before.state.tag = "Transfer")
          => /\ Len(loopback.last.calls) = 1
             /\ LoopbackWrote
             /\ loopback.last.calls[1].byte = loopback.before.state.byte
    /\ (LoopbackWrote /\ loopback.last.res = "Ok")
          => /\ loopback.self.state = State_Receiving
             /\ loopback.self.written
                    = Append(loopback.before.written,
                             loopback.before.state.byte)
             /\ LoopbackCounted(0, 0, 1, 0)
    /\ (loopback.last.op = "send_nb"
            /\ loopback.before.state.tag = "Receiving")
          => /\ loopback.last.res = "WouldBlock"
             /\ loopback.last.calls = << >>
             /\ loopback.self = loopback.before
    /\ (loopback.last.calls # << >>
            /\ loopback.last.calls[1].res = "WouldBlock")
          => /\ loopback.last.res = "WouldBlock"
             /\ loopback.self = loopback.before

\* a byte was read while another one was held, and later a held byte was
\* written
C31_Witness ==
    /\ LoopbackWrote
    /\ loopback.last.res = "Ok"
    /\ loopback.self.tx_stats.failed = 1
    /\ loopback.self.rx_stats.successful = 2
    /\ loopback.errors = 0

\* 1 when the Loopback holds a byte, else 0
LoopbackHeld == IF loopback.self.state.tag = "Transfer" THEN 1 ELSE 0

\* C39: a Loopback driven only through loop_nb alternates between reading
\* and writing: the bytes written are the bytes read, in order, but for the
\* byte that is held; a held byte is never overwritten, so tx_stats failed
\* grows only on a serial write error; with no serial errors rx successful
\* equals tx successful plus 1 if a byte is held.
C39_LoopNbAlternates ==
    /\ Len(loopback.read) = Len(loopback.self.written) + LoopbackHeld
    /\ loopback.self.written
           = SubSeq(loopback.read, 1, Len(loopback.self.written))
    /\ loopback.self.state.tag = "Transfer"
          => loopback.self.state.byte = loopback.read[Len(loopback.read)]
    /\ LoopbackRead => loopback.before.state.tag = "Receiving"
    /\ LoopbackWrote => loopback.before.state.tag = "Transfer"
    /\ loopback.self.tx_stats.failed # loopback.before.tx_stats.failed
          => /\ LoopbackWrote
             /\ loopback.last.calls[1].res \in SerialErrors
    /\ loopback.errors = 0
          => loopback.self.rx_stats.successful
                 = loopback.self.tx_stats.successful + LoopbackHeld

\* two bytes went round and a third one is held, the serial never failing
C39_Witness ==
    /\ loopback.last.op = "loop_nb"
    /\ loopback.errors = 0
    /\ Len(loopback.self.written) = 2
    /\ LoopbackHeld = 1

(***************************************************************************)
(* ByteRate claims.                                                        *)
(***************************************************************************)
\* bytes_per_second was asked and answered
RateAsked == byte_rate.op = "bytes_per_second"

\* the four precisions in the order nanoseconds, microseconds,
\* milliseconds, seconds
Precisions(r) ==
    <<bytes_per_second_ns_accuracy(r), bytes_per_second_us_accuracy(r),
      bytes_per_second_ms_accuracy(r), bytes_per_second_sec_accuracy(r)>>

\* C32 as stated: bytes_per_second returns None if and only if the interval
\* is zero
C32_NoneIffZeroInterval ==
    RateAsked => (byte_rate.out = None <=> is_zero(byte_rate.self.interval))

\* C32, amended: bytes_per_second never panics; it returns None when the
\* interval is zero; for a non-zero interval it returns the result of the
\* first of the nanosecond, microsecond, millisecond and second precisions
\* that succeeds, and None when none of them does.
C32_FirstPrecisionOrNone ==
    RateAsked =>
        /\ ~byte_rate.panicked
        /\ is_zero(byte_rate.self.interval) => byte_rate.out = None
        /\ ~is_zero(byte_rate.self.interval) =>
              /\ \A i \in 1..4 :
                    (/\ IsSome(Precisions(byte_rate.self)[i])
                     /\ \A j \in 1..(i - 1) :
                           ~IsSome(Precisions(byte_rate.self)[j]))
                        => byte_rate.out = Precisions(byte_rate.self)[i]
              /\ (\A i \in 1..4 : ~IsSome(Precisions(byte_rate.self)[i]))
                    => byte_rate.out = None

\* usize::MAX / 2 bytes over two seconds: the second precision is the first
\* one that does not overflow
C32_Witness ==
    /\ RateAsked
    /\ byte_rate.self = rate_new(2147483647, new_duration(0, 2, 0))
    /\ byte_rate.out = Some(1073741823)

(***************************************************************************)
(* Limiter claims on can_send() and termination.                           *)
(***************************************************************************)
\* the bytes the window at this instant has left: a limiter not started or
\* with an expired timer opens a window with the whole budget
SendBudget(l, now) ==
    IF l.state = "Idle" \/ timer_expired(l, now) THEN l.max_rate.bytes
    ELSE IF l.state = "Running" THEN l.remaining
    ELSE 0

\* send() recorded one send against the budget: it returned Ok, true when
\* bytes are left after it
SendRecorded(done, budget) ==
    /\ budget >= 1
    /\ done.res = (IF budget > 1 THEN "Ok(true)" ELSE "Ok(false)")
    /\ done.self.remaining = budget - 1

\* can_send() on l predicts send() on l at the same instant
CanSendPredicts(l, now) ==
    /\ ~can_send(l, now)
          => /\ send(l, now).res = "Ok(false)"
             /\ send(l, now).self = l
    /\ can_send(l, now)
          => SendRecorded(send(l, now), SendBudget(l, now))

\* C33: on a limiter with a non-zero interval, in any state reached by
\* send(), restart() and clock advances, can_send() predicts send() at the
\* same instant: when it is false send() returns Ok(false) and leaves the
\* limiter unchanged; when it is true send() records one send against a
\* budget of at least 1.
C33_CanSendPredictsSend ==
    (limiter.returned /\ limiter.rate_limit.max_rate.interval >= 1)
        => CanSendPredicts(limiter.rate_limit, limiter.now)

\* C34: every call of send() and restart() terminates, for every
\* configuration and every clock value, an interval of zero and a deadline
\* equal to the current instant included.
C34_SendRestartTerminate ==
    limiter.last.op \in {"send", "restart"}
        => /\ limiter.returned
           /\ limiter.last.res \in {"Ok", "Ok(true)", "Ok(false)",
                                    "Err(Overflow)"}

(***************************************************************************)
(* Measurer claim.                                                         *)
(***************************************************************************)
\* C35: reset() re-anchors the measuring window: after reset() the current
\* and the published byte counts are 0, and the next publication of
\* output_rate (by an on_byte call) happens no earlier than one full
\* interval after the instant of the reset.
C35_ResetReanchors ==
    /\ measurer.last.op = "reset"
          => /\ measurer.self.current_rate.bytes = 0
             /\ measurer.self.output_rate.bytes = 0
    /\ (/\ IsSome(measurer.reset_at)
        /\ measurer.last.op = "on_byte"
        /\ measurer.last.published
        /\ measurer.published = 1)
          => measurer.now
                 >= Unwrap(measurer.reset_at)
                        + measurer.self.current_rate.interval

(***************************************************************************)
(* RX claims on the loss count, the resynchronisation and the buffer.      *)
(***************************************************************************)
\* the counter the RX decodes when this byte arrives as the CRC byte
DecodedOn(byte) ==
    from_slice_checked(rx_state.current_packet, checksum_arg(rx_state, byte),
                       number_size)

\* this byte makes the RX decode a packet while a last counter is stored
DecodesAfterLast(byte) ==
    /\ rx_state.internal_state = "WaitingForCRC"
    /\ IsSome(rx_state.number)
    /\ IsSome(DecodedOn(byte))

\* C36: whenever a packet is decoded while a last counter is stored, the
\* number added to loss_stats failed is distance(last, new) - 1 and the
\* subtraction does not underflow: the distance is at least 1, also for a
\* repeated or an older counter.
C36_LossNeverUnderflows ==
    \A byte \in FillBytes :
        (/\ call.result # "Panic"
         /\ DecodesAfterLast(byte)
         /\ ~distance_panics(Unwrap(rx_state.number),
                             from_le_bytes(Unwrap(DecodedOn(byte))),
                             number_size))
            => /\ distance(Unwrap(rx_state.number),
                           from_le_bytes(Unwrap(DecodedOn(byte))),
                           number_size) >= 1
               /\ on_byte_received(rx_state, byte, number_size)
                      .loss_stats.failed
                    = saturating_add(rx_state.loss_stats.failed,
                          distance(Unwrap(rx_state.number),
                                   from_le_bytes(Unwrap(DecodedOn(byte))),
                                   number_size) - 1)

\* C40: in every reachable RX state the receive buffer holds no 0x00 byte,
\* so every counter decoded and stored has all bytes non-zero and distance
\* is never called with an operand that is not a Counter.
C40_BufferHasNoZero ==
    /\ \A i \in 1..Len(rx_state.current_packet) :
          rx_state.current_packet[i] # 0
    /\ IsSome(rx_state.number)
          => IsSome(normalize(Unwrap(rx_state.number), number_size))
    /\ \A byte \in FillBytes :
          DecodesAfterLast(byte)
              => ~distance_panics(Unwrap(rx_state.number),
                                  from_le_bytes(Unwrap(DecodedOn(byte))),
                                  number_size)

\* two packets were decoded, the second one handed to distance with the
\* counter of the first, and bytes are waiting in the buffer
C40_Witness ==
    /\ rx_state.loss_stats.successful = 2
    /\ IsSome(rx_state.number)
    /\ rx_state.internal_state = "Receiving"
    /\ Len(rx_state.current_packet) = number_size

RECURSIVE RxFeed(_, _, _, _)
\* the RX after it consumed these bytes, or the RX at the byte on which
\* on_byte_received aborted
RxFeed(rx, bytes, sz, checks) ==
    IF bytes = << >> THEN [rx |-> rx, panicked |-> FALSE]
    ELSE IF on_byte_received_panics(rx, Head(bytes), sz, checks)
    THEN [rx |-> rx, panicked |-> TRUE]
    ELSE RxFeed(on_byte_received(rx, Head(bytes), sz), Tail(bytes), sz, checks)

\* counters of well-formed packets
ResyncCounters(sz) == IF sz = 1 THEN {1, 2} ELSE {257, 258}

\* the RX synchronised: phase Receiving, empty buffer, still running
Synchronised(fed) ==
    /\ ~fed.panicked
    /\ fed.rx.internal_state = "Receiving"
    /\ fed.rx.current_packet = << >>

\* the RX that was synchronised consumed the packet of the counter v: the
\* packet is decoded and counted as successful
DecodedNext(before, fed, v) ==
    /\ Synchronised(fed)
    /\ fed.rx.number = Some(v)
    /\ fed.rx.loss_stats.successful = before.rx.loss_stats.successful + 1

\* the RX resynchronises on the packet of a and decodes the packet of b
Resynchronises(a, b) ==
    /\ Synchronised(RxFeed(rx_state,
                           PacketOf(a, number_size, rx_state.checksum_enabled),
                           number_size, overflow_checks))
    /\ DecodedNext(
           RxFeed(rx_state,
                  PacketOf(a, number_size, rx_state.checksum_enabled),
                  number_size, overflow_checks),
           RxFeed(rx_state,
                  PacketOf(a, number_size, rx_state.checksum_enabled)
                    \o PacketOf(b, number_size, rx_state.checksum_enabled),
                  number_size, overflow_checks),
           b)

\* C37: from any reachable RX state, after one complete well-formed packet
\* has been consumed the RX is in phase Receiving with an empty buffer, and
\* the well-formed packet that follows is decoded and counted as successful.
C37_Resynchronises ==
    call.result # "Panic"
        => \A a \in ResyncCounters(number_size),
              b \in ResyncCounters(number_size) : Resynchronises(a, b)

(***************************************************************************)
(* TX claim.                                                               *)
(***************************************************************************)
\* the packet of the counter v on the wire: its bytes, low byte first, the
\* null terminator and the checksum byte
WirePacket(v, sz, checksum_enabled) ==
    to_le_bytes(v, sz)
        \o <<0, packet_checksum(to_le_bytes(v, sz), checksum_enabled)>>

RECURSIVE WireStream(_, _, _, _)
\* the packets of n successive counters from v on
WireStream(v, n, sz, checksum_enabled) ==
    IF n = 0 THEN << >>
    ELSE WirePacket(v, sz, checksum_enabled)
             \o WireStream(pop(v, sz).self, n - 1, sz, checksum_enabled)

\* C38: whatever the serial answers to the writes of send_nb, the bytes
\* whose write returned Ok are a prefix of packet(min) ++ packet(next(min))
\* ++ ..., and tx_stats successful is the length of that prefix.
C38_WrittenIsPrefix ==
    /\ serial.written
           = SubSeq(WireStream(min_counter(number_size), MaxSendCalls,
                               number_size, tx_state.checksum_enabled),
                    1, Len(serial.written))
    /\ tx_stats.successful = Len(serial.written)

\* a whole packet and the first byte of the next one were written, with a
\* write that failed and one that would block in between
C38_Witness ==
    /\ Len(serial.written) = number_size + 3
    /\ tx_stats.failed >= 1
    /\ call.send_res = "WouldBlock"

=============================================================================
